---------------------------- MODULE Spec2Model ----------------------------
(***************************************************************************)
(* A model of pcbdl/base.py: the connection engine (Net, PartInstancePin), *)
(* NetBundle / PartInstancePort, the pin-fragment resolver (PinFragment)   *)
(* and port derivation (PartInstancePort._create_ports).                   *)
(*                                                                         *)
(* Python objects live in heaps and are named by their index (identity).   *)
(* 0 stands for None / "attribute not set".  Strings are sequences of      *)
(* one-character strings so that upper(), substring tests and regex        *)
(* prefixes are computed, not assumed.                                     *)
(***************************************************************************)
EXTENDS Integers, Sequences, FiniteSets, TLC

VARIABLES
    nets,        \* heap of Net objects (base nets and the copies _shift makes)
    connLists,   \* heap of the _connections list objects, each a list of groups
    pinNet,      \* PartInstancePin._net of every pin (0 = None)
    bundleConns, \* NetBundle._connections of every bundle
    portBundle,  \* PartInstancePort._net_bundle of every port (0 = None)
    lastOp,      \* the call made last, with what it raised and returned
    firstRead,   \* per pin: what the first read of .net on the unconnected pin returned
    opCount,     \* number of calls made so far
    resIn,       \* resolver input: the class list (most derived first), each a PINS list
    resOut,      \* resolver output: the resolved PartClassPins, or <<>> before resolution
    portIn,      \* port derivation input: an Interface and a part's pins
    portOut,     \* port derivation output
    parts,       \* the Part objects constructed so far
    plug,        \* the registered factories and the calls made to them
    netPlugins   \* per Net: the plugins entry of the object's own __dict__

vars == <<nets, connLists, pinNet, bundleConns, portBundle, lastOp, firstRead,
          opCount, resIn, resOut, portIn, portOut, parts, plug, netPlugins>>

(***************************************************************************)
(* Bounds                                                                  *)
(***************************************************************************)
MaxOps == 2
MaxFrags == 3

(***************************************************************************)
(* Strings                                                                 *)
(***************************************************************************)
UpperChar(c) ==
    CASE c = "a" -> "A"
      [] c = "b" -> "B"
      [] c = "c" -> "C"
      [] c = "d" -> "D"
      [] c = "g" -> "G"
      [] c = "n" -> "N"
      [] OTHER -> c

\* str.upper()
Upper(s) == [i \in 1..Len(s) |-> UpperChar(s[i])]

\* s[:len(p)] == p
IsPrefix(p, s) == Len(p) <= Len(s) /\ SubSeq(s, 1, Len(p)) = p

\* the str case of "p in s": p occurs in s as a contiguous substring
IsSubstring(p, s) ==
    \E i \in 0..(Len(s) - Len(p)) : SubSeq(s, i + 1, i + Len(p)) = p

\* the tuple/list case of "x in t"
InSeq(x, t) == \E i \in 1..Len(t) : t[i] = x

SeqToSet(t) == {t[i] : i \in 1..Len(t)}

RECURSIVE Flatten(_)
\* sum(groups, ()): the concatenation of a sequence of sequences
Flatten(ss) == IF ss = <<>> THEN <<>> ELSE Head(ss) \o Flatten(Tail(ss))

(***************************************************************************)
(* Enums                                                                   *)
(***************************************************************************)
ConnectDirection == {"UNKNOWN", "IN", "OUT"}

PinType == {"UNKNOWN", "PRIMARY", "SECONDARY", "POWER_INPUT", "POWER_OUTPUT",
            "GROUND", "INPUT", "OUTPUT"}

(***************************************************************************)
(* The connection engine: Net and PartInstancePin                          *)
(***************************************************************************)
\* The pins of the instantiated parts (object identities).
Pins == {"a", "b", "c"}

PinTarget(p) == [kind |-> "pin", id |-> p]
NetTarget(n) == [kind |-> "net", id |-> n]
OtherTarget == [kind |-> "other", id |-> 0]

\* The engine's mutable state, threaded through the methods below.
EngineState == [nets |-> nets, connLists |-> connLists, pinNet |-> pinNet,
                bundleConns |-> bundleConns, portBundle |-> portBundle,
                err |-> "none", at |-> 0, ret |-> 0]

\* The record of "no call made yet".
NoOp == [kind |-> "init", self |-> 0, others |-> <<>>, dir |-> "UNKNOWN",
         err |-> "none", at |-> 0, ret |-> 0]

\* Net.__init__: a new Net object with its own empty _connections list.
\* _name / has_name are the class defaults unless a name is given.
Net_init(st, name) ==
    LET ref == Len(st.connLists) + 1
        obj == [parent |-> 0, group |-> 0, last |-> 0, conns |-> ref,
                name |-> IF name = <<>> THEN <<>> ELSE Upper(Upper(name)),
                has_name |-> name # <<>>]
    IN [st EXCEPT !.nets = Append(@, obj),
                  !.connLists = Append(@, <<>>),
                  !.ret = Len(st.nets) + 1]

\* OrderedDict.__setitem__: an existing key keeps its place, a new key is appended.
DictSet(d, k, v) ==
    IF \E i \in 1..Len(d) : d[i].pin = k
    THEN [i \in 1..Len(d) |-> IF d[i].pin = k THEN [pin |-> k, dir |-> v] ELSE d[i]]
    ELSE Append(d, [pin |-> k, dir |-> v])

\* A setter that lets a pin be connected again to the Net it is already on.
net_setter_same_ok(st, pin, new_net) ==
    IF st.pinNet[pin] # 0 /\ st.pinNet[pin] # new_net
    THEN [st EXCEPT !.err = "ValueError"]
    ELSE [st EXCEPT !.pinNet[pin] = new_net]

\* PartInstancePin.net (setter): write-once.
net_setter(st, pin, new_net) ==
    IF st.pinNet[pin] # 0
    THEN [st EXCEPT !.err = "ValueError"]
    ELSE [st EXCEPT !.pinNet[pin] = new_net]

\* A connect that opens a new group also when called on a derived view.
connection_group_always_new(st, self) ==
    LET ref == st.nets[self].conns
    IN [st |-> [st EXCEPT !.connLists[ref] = Append(@, <<>>)],
        g |-> Len(st.connLists[ref]) + 1]

\* A group lookup that falls back to the group of the previous call.
connection_group_reuse_last(st, self) ==
    IF st.nets[self].group # 0
    THEN [st |-> st, g |-> st.nets[self].group]
    ELSE IF st.nets[self].last # 0
         THEN [st |-> st, g |-> st.nets[self].last]
         ELSE LET ref == st.nets[self].conns
              IN [st |-> [st EXCEPT !.connLists[ref] = Append(@, <<>>)],
                  g |-> Len(st.connLists[ref]) + 1]

\* Net.connect, lines 113-117: the group this call records into: self.group when
\* the object has that attribute, else a new group appended to _connections.
connection_group(st, self) ==
    IF st.nets[self].group # 0
    THEN [st |-> st, g |-> st.nets[self].group]
    ELSE LET ref == st.nets[self].conns
         IN [st |-> [st EXCEPT !.connLists[ref] = Append(@, <<>>)],
             g |-> Len(st.connLists[ref]) + 1]

\* A name getter that reads the object's own _name, also on a derived view.
Net_name_own(ns, n) ==
    IF ~ns[n].has_name THEN <<"ANON_NET?m", n>> ELSE ns[n].name

RECURSIVE Net_name(_, _)
\* Net.name (getter).  The name of an anonymous Net is made of the digits of
\* id(net) // 32 & 0xfffff; it is kept as the pair of the text and the object,
\* which says no more than that one object always reads the same.
Net_name(ns, n) ==
    IF ns[n].parent # 0
    THEN Net_name(ns, ns[n].parent)
    ELSE IF ~ns[n].has_name
         THEN <<"ANON_NET?m", n>>
         ELSE ns[n].name

\* Net.name (setter): the attributes are set on the object it is called on.
Net_name_setter(st, self, new_name) ==
    [st EXCEPT !.nets[self].name = Upper(new_name), !.nets[self].has_name = TRUE]

PartTarget(p, part) == [kind |-> "part", id |-> p, part |-> part]

RECURSIVE matching_pin(_, _, _, _, _)
\* Part.get_stuff_to_connect, lines 602-607: the index of the first pin, from
\* the i-th pin's j-th name on, one of whose names equals the net name as it is
\* or behind the prefix; 0 when the loops end.
matching_pin(pins, prefix, net_name, i, j) ==
    IF i > Len(pins)
    THEN 0
    ELSE IF j > Len(pins[i].names)
         THEN matching_pin(pins, prefix, net_name, i + 1, 1)
         ELSE IF pins[i].names[j] = net_name \/ prefix \o pins[i].names[j] = net_name
              THEN i
              ELSE matching_pin(pins, prefix, net_name, i, j + 1)

\* Part.get_stuff_to_connect, lines 605-608: what the loops over the pins end
\* with: the pin returned, or the ValueError.
matched_pin(pins, i) ==
    IF i = 0
    THEN [pin |-> 0, err |-> "ValueError"]
    ELSE [pin |-> pins[i].id, err |-> "none"]

\* Part.get_stuff_to_connect(pin_type, net) for the Net net of the heap ns: part
\* is [pin_names_match_nets, pin_names_match_nets_prefix, pins], each pin
\* [id, names].
get_stuff_to_connect(part, ns, net) ==
    IF part.pin_names_match_nets
    THEN matched_pin(part.pins,
                     matching_pin(part.pins, part.pin_names_match_nets_prefix,
                                  Net_name(ns, net), 1, 1))
    ELSE [pin |-> 0, err |-> "NotImplementedError"]

\* Net.connect, lines 122-126 and 134-135: the pin a Part gave is recorded as
\* a pin given directly is; what get_stuff_to_connect raised is raised.
connect_stuff(st, self, g, stuff, direction) ==
    IF stuff.err # "none"
    THEN [st EXCEPT !.err = stuff.err]
    ELSE net_setter([st EXCEPT !.connLists[st.nets[self].conns][g] =
                                   DictSet(@, stuff.pin, direction)],
                    stuff.pin, self)

\* Net.connect, lines 120-135: one target: a Part (which is asked for its pin),
\* a pin, a Net or a foreign object.
connect_one(st, self, g, other, direction) ==
    CASE other.kind = "net" -> [st EXCEPT !.err = "NotImplementedError"]
      [] other.kind = "pin" ->
            LET ref == st.nets[self].conns
                st1 == [st EXCEPT !.connLists[ref][g] = DictSet(@, other.id, direction)]
            IN net_setter(st1, other.id, self)
      [] other.kind = "part" ->
            connect_stuff(st, self, g, get_stuff_to_connect(other.part, st.nets, self),
                          direction)
      [] OTHER -> [st EXCEPT !.err = "TypeError"]

RECURSIVE connect_loop(_, _, _, _, _, _)
\* Net.connect, line 119: the loop over the targets from the i-th on, left at the
\* first raise (at records which target raised).
connect_loop(st, self, g, others, direction, i) ==
    IF i > Len(others)
    THEN st
    ELSE LET st1 == connect_one(st, self, g, others[i], direction)
         IN IF st1.err # "none"
            THEN [st1 EXCEPT !.at = i]
            ELSE connect_loop(st1, self, g, others, direction, i + 1)

\* Net.connect
Net_connect(st, self, others, direction) ==
    LET cg == connection_group(st, self)
        st2 == connect_loop(cg.st, self, cg.g, others, direction, 1)
    IN IF st2.err = "none"
       THEN [st2 EXCEPT !.nets[self].last = cg.g]
       ELSE st2

\* A _shift that hands back the Net it was called on, never a copy.
Net_shift_returns_self(st, self, direction, others) ==
    LET st1 == Net_connect(st, self, others, direction)
    IN IF st1.err # "none" THEN st1 ELSE [st1 EXCEPT !.ret = self]

\* Net._shift: connect, then return self when it has a group attribute, else
\* a shallow copy with parent and group set.  copy.copy shares _connections.
Net_shift(st, self, direction, others) ==
    LET st1 == Net_connect(st, self, others, direction)
    IN IF st1.err # "none"
       THEN st1
       ELSE IF st1.nets[self].group # 0
            THEN [st1 EXCEPT !.ret = self]
            ELSE LET grouped_net == [st1.nets[self] EXCEPT
                                        !.parent = self,
                                        !.group = st1.nets[self].last]
                 IN [st1 EXCEPT !.nets = Append(@, grouped_net),
                                !.ret = Len(st1.nets) + 1]

\* Net.__lshift__
Net_lshift(st, self, others) == Net_shift(st, self, "IN", others)

\* Net.__rshift__
Net_rshift(st, self, others) == Net_shift(st, self, "OUT", others)

\* PartInstancePin.net (getter)
net_getter(st, pin) ==
    IF st.pinNet[pin] = 0
    THEN LET st1 == Net_init(st, <<>>)
         IN Net_lshift(st1, st1.ret, <<PinTarget(pin)>>)
    ELSE [st EXCEPT !.ret = st.pinNet[pin]]

\* Net._shift applied to what an earlier shift returned, unless that raised.
shift_returned(st, direction, others) ==
    IF st.err # "none" THEN st ELSE Net_shift(st, st.ret, direction, others)

\* A pin shift that lets the net property make the Net of an unconnected pin.
PartInstancePin_lshift_via_getter(st, pin, others) ==
    shift_returned(net_getter(st, pin), "IN", others)

\* PartInstancePin.__lshift__: an unconnected pin makes a Net, shifts itself
\* onto it the other way round (net >>= self) and goes on with what that
\* returned.
PartInstancePin_lshift(st, pin, others) ==
    IF st.pinNet[pin] = 0
    THEN shift_returned(Net_rshift(Net_init(st, <<>>), Len(st.nets) + 1,
                                   <<PinTarget(pin)>>),
                        "IN", others)
    ELSE Net_lshift(st, st.pinNet[pin], others)

\* PartInstancePin.__rshift__
PartInstancePin_rshift(st, pin, others) ==
    IF st.pinNet[pin] = 0
    THEN shift_returned(Net_lshift(Net_init(st, <<>>), Len(st.nets) + 1,
                                   <<PinTarget(pin)>>),
                        "OUT", others)
    ELSE Net_rshift(st, st.pinNet[pin], others)

\* Net.grouped_connections, read from any heap
grouped_connections_in(ns, cl, n) ==
    [i \in 1..Len(cl[ns[n].conns]) |->
        [j \in 1..Len(cl[ns[n].conns][i]) |-> cl[ns[n].conns][i][j].pin]]

\* Net.grouped_connections
grouped_connections(n) == grouped_connections_in(nets, connLists, n)

\* Net.connections
connections(n) == Flatten(grouped_connections(n))

(***************************************************************************)
(* Interface, PartInstancePort and port derivation                         *)
(*                                                                         *)
(* A signal is a str or a tuple of alternative names: [tuple, names].      *)
(* An Interface class is [id, SIGNALS]; an Interface object is             *)
(* [cls, regex, has_name, name].  A compiled pattern is one of             *)
(*   [kind |-> "alts", port |-> FALSE, alts]   (alt1|alt2|...)             *)
(*   [kind |-> "alts", port |-> TRUE,  alts]   ([A-Z0-9]+)_(alt1|alt2|...) *)
(*   [kind |-> "word"]                         (\w+)                       *)
(* Ordered dicts are sequences of [key, val].                              *)
(***************************************************************************)
StrSignal(n) == [tuple |-> FALSE, names |-> <<n>>]
TupleSignal(ns) == [tuple |-> TRUE, names |-> ns]

\* OrderedDict.__setitem__ on [key, val] entries
ODSet(d, k, v) ==
    IF \E i \in 1..Len(d) : d[i].key = k
    THEN [i \in 1..Len(d) |-> IF d[i].key = k THEN [key |-> k, val |-> v] ELSE d[i]]
    ELSE Append(d, [key |-> k, val |-> v])

ODHas(d, k) == \E i \in 1..Len(d) : d[i].key = k

ODGet(d, k) == d[CHOOSE i \in 1..Len(d) : d[i].key = k].val

\* defaultdict(dict).__getitem__
ODGetDefault(d, k) == IF ODHas(d, k) THEN ODGet(d, k) ELSE <<>>

\* The first index at which character c occurs in s, or 0.
IndexOfChar(s, c) ==
    IF \E i \in 1..Len(s) : s[i] = c
    THEN CHOOSE i \in 1..Len(s) : s[i] = c /\ \A j \in 1..(i - 1) : s[j] # c
    ELSE 0

\* The first alternative that the text starts with, as a one-element tuple, or <<>>.
FirstAlt(alts, text) ==
    IF \E i \in 1..Len(alts) : IsPrefix(alts[i], text)
    THEN <<alts[CHOOSE i \in 1..Len(alts) :
                    /\ IsPrefix(alts[i], text)
                    /\ \A j \in 1..(i - 1) : ~IsPrefix(alts[j], text)]>>
    ELSE <<>>

\* regex.match(name) and match.groups(): a match starts at the first character
\* and need not reach the end of the name.
regex_match(regex, name) ==
    CASE regex.kind = "word" ->
            [ok |-> name # <<>>, groups |-> <<name>>]
      [] regex.kind = "alts" /\ ~regex.port ->
            [ok |-> FirstAlt(regex.alts, name) # <<>>,
             groups |-> FirstAlt(regex.alts, name)]
      [] OTHER ->
            LET k == IndexOfChar(name, "_")
                rest == SubSeq(name, k + 1, Len(name))
            IN IF k >= 2 /\ FirstAlt(regex.alts, rest) # <<>>
               THEN [ok |-> TRUE,
                     groups |-> <<SubSeq(name, 1, k - 1)>> \o FirstAlt(regex.alts, rest)]
               ELSE [ok |-> FALSE, groups |-> <<>>]

\* Interface.signal_matching_name: the first declared signal that equals the
\* name (str), contains it as a substring (str) or as a member (tuple);
\* found = FALSE is the KeyError.
signal_matching_name(SIGNALS, name) ==
    LET hit(i) == IF SIGNALS[i].tuple
                  THEN InSeq(name, SIGNALS[i].names)
                  ELSE name = SIGNALS[i].names[1] \/ IsSubstring(name, SIGNALS[i].names[1])
    IN IF \E i \in 1..Len(SIGNALS) : hit(i)
       THEN [found |-> TRUE,
             signal |-> SIGNALS[CHOOSE i \in 1..Len(SIGNALS) :
                                   hit(i) /\ \A j \in 1..(i - 1) : ~hit(j)]]
       ELSE [found |-> FALSE, signal |-> StrSignal(<<>>)]

\* A signal_name without the str case: signal[0] of a str is its first character.
signal_name_index_only(signal) ==
    IF signal.tuple THEN signal.names[1] ELSE <<Head(signal.names[1])>>

\* Interface.signal_name: the str itself, or the first name of a tuple.
signal_name(signal) == signal.names[1]

RECURSIVE gather_matches(_, _, _, _, _)
\* _create_ports, lines 754-760: matches[port name tuple][captured name] = pin,
\* over every name of every pin, from pin i, name j on.
gather_matches(regex, pins, i, j, matches) ==
    IF i > Len(pins)
    THEN matches
    ELSE IF j > Len(pins[i].names)
         THEN gather_matches(regex, pins, i + 1, 1, matches)
         ELSE LET m == regex_match(regex, pins[i].names[j])
                  n == Len(m.groups)
                  maybe_port_name == SubSeq(m.groups, 1, n - 1)
                  pin_name == m.groups[n]
              IN IF m.ok
                 THEN gather_matches(regex, pins, i, j + 1,
                         ODSet(matches, maybe_port_name,
                               ODSet(ODGetDefault(matches, maybe_port_name),
                                     pin_name, pins[i].id)))
                 ELSE gather_matches(regex, pins, i, j + 1, matches)

RECURSIVE port_pins(_, _, _, _)
\* _create_ports, lines 765-772: the _PinList of one port.
port_pins(interface, grouped_port, i, pins) ==
    IF i > Len(grouped_port)
    THEN pins
    ELSE LET sm == signal_matching_name(interface.cls.SIGNALS, grouped_port[i].key)
         IN IF sm.found
            THEN port_pins(interface, grouped_port, i + 1,
                           ODSet(pins, signal_name(sm.signal), grouped_port[i].val))
            ELSE port_pins(interface, grouped_port, i + 1, pins)

RECURSIVE make_ports(_, _, _, _)
\* _create_ports, lines 763-782: one PartInstancePort per bucket; a bucket
\* without a port name on an Interface without a name raises ValueError after
\* the earlier ports were yielded.
make_ports(interface, matches, i, ports) ==
    IF i > Len(matches)
    THEN [ports |-> ports, err |-> "none"]
    ELSE LET maybe_port_name == matches[i].key
             pins == port_pins(interface, matches[i].val, 1, <<>>)
         IN IF maybe_port_name # <<>>
            THEN make_ports(interface, matches, i + 1,
                    Append(ports, [name |-> maybe_port_name[1], pins |-> pins,
                                   interface |-> interface]))
            ELSE IF interface.has_name
                 THEN make_ports(interface, matches, i + 1,
                         Append(ports, [name |-> interface.name, pins |-> pins,
                                        interface |-> interface]))
                 ELSE [ports |-> ports, err |-> "ValueError"]

\* PartInstancePort._create_ports
create_ports(interface, pins) ==
    make_ports(interface, gather_matches(interface.regex, pins, 1, 1, <<>>), 1, <<>>)

(***************************************************************************)
(* NetBundle                                                               *)
(*                                                                         *)
(* A bundle is [interface (a class), prefix, nets (signal name -> Net)];   *)
(* its _connections list is bundleConns[bundle].  Ports are named by their *)
(* index in the list of the part's ports.                                  *)
(***************************************************************************)
PortTarget(i) == [kind |-> "port", id |-> i]

RECURSIVE bundle_nets(_, _, _, _, _)
\* NetBundle.__init__, lines 675-691: one Net per signal, named prefix_signal.
bundle_nets(st, SIGNALS, prefix, i, made) ==
    IF i > Len(SIGNALS)
    THEN [st |-> st, nets |-> made]
    ELSE LET signal == SIGNALS[i].names[1]
             st1 == Net_init(st, prefix \o <<"_">> \o signal)
         IN bundle_nets(st1, SIGNALS, prefix, i + 1, ODSet(made, signal, st1.ret))

\* NetBundle.__init__
NetBundle_init(st, interface, prefix) ==
    LET r == bundle_nets(st, interface.SIGNALS, prefix, 1, <<>>)
    IN [st |-> [r.st EXCEPT !.bundleConns = Append(@, <<>>)],
        bundle |-> [interface |-> interface, prefix |-> prefix, nets |-> r.nets]]

\* _PinList.__getitem__ with a str key: the key as given (upper-cased), else the
\* first pin that carries the name; found = FALSE is the KeyError.
PinList_getitem(pinlist, pin_name, names_of) ==
    LET key == Upper(pin_name)
        carries(i) == InSeq(Upper(key), names_of[pinlist[i].val])
    IN IF ODHas(pinlist, key)
       THEN [found |-> TRUE, pin |-> ODGet(pinlist, key)]
       ELSE IF \E i \in 1..Len(pinlist) : carries(i)
            THEN [found |-> TRUE,
                  pin |-> pinlist[CHOOSE i \in 1..Len(pinlist) :
                                     carries(i) /\ \A j \in 1..(i - 1) : ~carries(j)].val]
            ELSE [found |-> FALSE, pin |-> 0]

\* PartInstancePort.net_bundle (setter): write-once.
net_bundle_setter(st, port, new_net_bundle) ==
    IF st.portBundle[port] # 0
    THEN [st EXCEPT !.err = "ValueError"]
    ELSE [st EXCEPT !.portBundle[port] = new_net_bundle]

RECURSIVE connect_signals(_, _, _, _, _)
\* NetBundle.connect, lines 715-719: one Net.connect per declared signal.
connect_signals(st, bundle, port, names_of, i) ==
    IF i > Len(bundle.interface.SIGNALS)
    THEN st
    ELSE LET name == signal_name(bundle.interface.SIGNALS[i])
             self_net == ODGet(bundle.nets, name)
             other_pin == PinList_getitem(port.pins, name, names_of)
         IN IF ~other_pin.found
            THEN [st EXCEPT !.err = "KeyError"]
            ELSE LET st1 == Net_connect(st, self_net, <<PinTarget(other_pin.pin)>>,
                                        "UNKNOWN")
                 IN IF st1.err # "none"
                    THEN st1
                    ELSE connect_signals(st1, bundle, port, names_of, i + 1)

\* A connect that wires the signals first and compares the Interfaces afterwards.
NetBundle_connect_one_late_check(st, world, self, other) ==
    IF other.kind # "port"
    THEN [st EXCEPT !.err = "AttributeError"]
    ELSE LET bundle == world.bundles[self]
             port == world.ports[other.id]
             st1 == connect_signals(st, bundle, port, world.names_of, 1)
         IN IF st1.err # "none"
            THEN st1
            ELSE IF bundle.interface.id # port.interface.cls.id
                 THEN [st1 EXCEPT !.err = "TypeError"]
                 ELSE LET st2 == net_bundle_setter(st1, other.id, self)
                      IN IF st2.err # "none"
                         THEN st2
                         ELSE [st2 EXCEPT !.bundleConns[self] = Append(@, other.id)]

\* A connect that appends the port without setting its bundle back-reference.
NetBundle_connect_one_no_backref(st, world, self, other) ==
    IF other.kind # "port"
    THEN [st EXCEPT !.err = "AttributeError"]
    ELSE LET bundle == world.bundles[self]
             port == world.ports[other.id]
         IN IF bundle.interface.id # port.interface.cls.id
            THEN [st EXCEPT !.err = "TypeError"]
            ELSE LET st1 == connect_signals(st, bundle, port, world.names_of, 1)
                 IN IF st1.err # "none"
                    THEN st1
                    ELSE [st1 EXCEPT !.bundleConns[self] = Append(@, other.id)]

\* NetBundle.connect, lines 697-723: one target.  A target that is not a port
\* leaves port = None, and the Interface comparison on line 708 raises
\* AttributeError before line 711 is reached.
NetBundle_connect_one(st, world, self, other) ==
    IF other.kind # "port"
    THEN [st EXCEPT !.err = "AttributeError"]
    ELSE LET bundle == world.bundles[self]
             port == world.ports[other.id]
         IN IF bundle.interface.id # port.interface.cls.id
            THEN [st EXCEPT !.err = "TypeError"]
            ELSE LET st1 == connect_signals(st, bundle, port, world.names_of, 1)
                 IN IF st1.err # "none"
                    THEN st1
                    ELSE LET st2 == net_bundle_setter(st1, other.id, self)
                         IN IF st2.err # "none"
                            THEN st2
                            ELSE [st2 EXCEPT !.bundleConns[self] = Append(@, other.id)]

RECURSIVE NetBundle_connect_loop(_, _, _, _, _)
\* NetBundle.connect, line 696: the loop over the targets, left at the first raise.
NetBundle_connect_loop(st, world, self, others, i) ==
    IF i > Len(others)
    THEN st
    ELSE LET st1 == NetBundle_connect_one(st, world, self, others[i])
         IN IF st1.err # "none"
            THEN [st1 EXCEPT !.at = i]
            ELSE NetBundle_connect_loop(st1, world, self, others, i + 1)

\* NetBundle.connect (direction and pin_type are not used for port targets)
NetBundle_connect(st, world, self, others, direction) ==
    [NetBundle_connect_loop(st, world, self, others, 1) EXCEPT !.ret = 0]

\* NetBundle._shift
NetBundle_shift(st, world, self, direction, others) ==
    LET st1 == NetBundle_connect(st, world, self, others, direction)
    IN IF st1.err # "none" THEN st1 ELSE [st1 EXCEPT !.ret = self]

(***************************************************************************)
(* The pin-fragment resolver: PinFragment and PartClassPin                 *)
(*                                                                         *)
(* A constructor argument that may be a str or a tuple is tagged with its  *)
(* kind.  A fragment is [id, names, numbers, args, kwargs]; id is the      *)
(* object's identity, its place in the list gather_fragments builds.       *)
(***************************************************************************)
StrArg(s) == [kind |-> "str", v |-> s]
TupleArg(t) == [kind |-> "tuple", v |-> t]
NoneArg == [kind |-> "none", v |-> <<>>]

\* PinFragment.__init__
PinFragment_init(names, number, numbers, args, kwargs) ==
    LET tuple == IF names.kind = "str" THEN <<names.v>> ELSE names.v
    IN [names |-> [i \in 1..Len(tuple) |-> Upper(tuple[i])],
        numbers |-> CASE number.kind = "none" -> numbers
                      [] number.kind = "str" -> <<number.v>> \o numbers
                      [] OTHER -> number.v \o numbers,
        args |-> args,
        kwargs |-> kwargs]

\* PinFragment.__eq__
PinFragment_eq(self, other) ==
    \E i \in 1..Len(self.names) : InSeq(self.names[i], other.names)

\* list.index(value) over fragments: the first element equal to value, 0 for
\* the ValueError.
list_index(list, value) ==
    IF \E i \in 1..Len(list) : PinFragment_eq(list[i], value)
    THEN CHOOSE i \in 1..Len(list) :
            /\ PinFragment_eq(list[i], value)
            /\ \A j \in 1..(i - 1) : ~PinFragment_eq(list[j], value)
    ELSE 0

\* list.pop(i)
list_pop(list, i) == SubSeq(list, 1, i - 1) \o SubSeq(list, i + 1, Len(list))

RECURSIVE same_pin_no_chain(_, _, _)
RECURSIVE same_pin(_, _, _)
\* A search that only ever looks for fragments equal to the first one of the
\* group and stops at the first miss.
same_pin_no_chain(all_fragments, same_pin_fragments, pin_index) ==
    LET i == list_index(all_fragments, same_pin_fragments[1])
    IN IF i = 0
       THEN [same |-> same_pin_fragments, rest |-> all_fragments]
       ELSE same_pin_no_chain(list_pop(all_fragments, i),
                              Append(same_pin_fragments, all_fragments[i]),
                              pin_index)

\* PinFragment.gather_fragments, lines 288-295: the inner loop.  pin_index
\* counts from 1 here; running past the end of the group is the IndexError.
same_pin(all_fragments, same_pin_fragments, pin_index) ==
    IF pin_index > Len(same_pin_fragments)
    THEN [same |-> same_pin_fragments, rest |-> all_fragments]
    ELSE LET i == list_index(all_fragments, same_pin_fragments[pin_index])
         IN IF i = 0
            THEN same_pin(all_fragments, same_pin_fragments, pin_index + 1)
            ELSE same_pin(list_pop(all_fragments, i),
                          Append(same_pin_fragments, all_fragments[i]),
                          pin_index)

RECURSIVE gather_loop(_)
\* PinFragment.gather_fragments, lines 284-296: the outer loop.
gather_loop(all_fragments) ==
    IF all_fragments = <<>>
    THEN <<>>
    ELSE LET r == same_pin(Tail(all_fragments), <<Head(all_fragments)>>, 1)
         IN <<r.same>> \o gather_loop(r.rest)

\* PinFragment.gather_fragments: cls_list is the list of the classes' PINS.
gather_fragments(cls_list) ==
    LET all == Flatten(cls_list)
    IN gather_loop([i \in 1..Len(all) |->
                       [id |-> i, names |-> all[i].names, numbers |-> all[i].numbers,
                        args |-> all[i].args, kwargs |-> all[i].kwargs]])

RECURSIVE deduplicated(_, _)
\* PinFragment.resolve, lines 300-302: the names in first-seen order.
deduplicated(names, seen_names) ==
    IF names = <<>>
    THEN <<>>
    ELSE IF Head(names) \in seen_names
         THEN deduplicated(Tail(names), seen_names)
         ELSE <<Head(names)>> \o deduplicated(Tail(names), seen_names \cup {Head(names)})

RECURSIVE dict_update(_, _)
\* dict.update
dict_update(d, other) ==
    IF other = <<>>
    THEN d
    ELSE dict_update(ODSet(d, Head(other).key, Head(other).val), Tail(other))

RECURSIVE overlay_forward(_, _, _, _)
\* An overlay that applies the fragments front to back.
overlay_forward(fragments, i, args, kwargs) ==
    IF i = 0
    THEN [args |-> args, kwargs |-> kwargs]
    ELSE LET k == Len(fragments) - i + 1
         IN overlay_forward(fragments, i - 1,
                            fragments[k].args \o SubSeq(args, Len(fragments[k].args) + 1, Len(args)),
                            dict_update(kwargs, fragments[k].kwargs))

RECURSIVE overlay(_, _, _, _)
\* PinFragment.resolve, lines 307-311: for fragment in reversed(fragments).
overlay(fragments, i, args, kwargs) ==
    IF i = 0
    THEN [args |-> args, kwargs |-> kwargs]
    ELSE overlay(fragments, i - 1,
                 fragments[i].args \o SubSeq(args, Len(fragments[i].args) + 1, Len(args)),
                 dict_update(kwargs, fragments[i].kwargs))

\* PartClassPin.__init__(names, numbers, *args, **kwargs): type and well are
\* taken by position or by keyword; anything else is a TypeError.
PartClassPin_init(names, numbers, args, kwargs) ==
    LET params == <<"type", "well">>
        bad == \/ Len(args) > Len(params)
               \/ \E i \in 1..Len(kwargs) : ~InSeq(kwargs[i].key, params)
               \/ \E i \in 1..Len(args) : i <= Len(params) /\ ODHas(kwargs, params[i])
        arg(i, default) == IF i <= Len(args) THEN args[i]
                           ELSE IF ODHas(kwargs, params[i]) THEN ODGet(kwargs, params[i])
                           ELSE default
    IN IF bad
       THEN [err |-> "TypeError", names |-> <<>>, numbers |-> <<>>,
             type |-> "UNKNOWN", well_name |-> NoneArg]
       ELSE [err |-> "none", names |-> names, numbers |-> numbers,
             type |-> arg(1, "UNKNOWN"), well_name |-> arg(2, NoneArg)]

\* PinFragment.resolve
resolve(fragments) ==
    LET o == overlay(fragments, Len(fragments), <<>>, <<>>)
    IN PartClassPin_init(
           deduplicated(Flatten([i \in 1..Len(fragments) |-> fragments[i].names]), {}),
           Flatten([i \in 1..Len(fragments) |-> fragments[i].numbers]),
           o.args, o.kwargs)

\* An element of PINS: a Pin written out, or the bare names.
PinEntry(names, kwargs) ==
    [kind |-> "Pin", names |-> names, number |-> NoneArg, kwargs |-> kwargs]
NumberedEntry(names, number, kwargs) ==
    [kind |-> "Pin", names |-> names, number |-> number, kwargs |-> kwargs]
NamesEntry(names) ==
    [kind |-> "names", names |-> names, number |-> NoneArg, kwargs |-> <<>>]

\* Part._generate_pin_instances, lines 541-547: every element of every PINS
\* list is a PinFragment afterwards, and the class gets its resolved pins.
generate_pins(cls_list) ==
    LET fragments == [c \in 1..Len(cls_list) |->
                         [i \in 1..Len(cls_list[c]) |->
                             PinFragment_init(cls_list[c][i].names, cls_list[c][i].number,
                                              <<>>, <<>>, cls_list[c][i].kwargs)]]
        groups == gather_fragments(fragments)
        pins == [g \in 1..Len(groups) |-> resolve(groups[g])]
    IN [groups |-> groups,
        pins |-> pins,
        err |-> IF \E g \in 1..Len(pins) : pins[g].err # "none"
                THEN "TypeError" ELSE "none"]

(***************************************************************************)
(* Plugin: the factories registered on the classes, and Plugin.init        *)
(*                                                                         *)
(* A plugin state is [attr, sets, invoked]: attr[cls] is the set object    *)
(* that is cls's own "plugins" attribute (0 = it has none of its own),     *)
(* sets the heap of those set objects, invoked the log of the calls        *)
(* plugin(instance) made so far.  An object's plugins attribute is         *)
(* [kind, keys]: "none" (no attribute), "factories" (the class's set seen  *)
(* through the object) or "instances" (a dict keyed by factory).           *)
(* Factories are registered on the classes below; a PinFragment has none,  *)
(* so its Plugin.init returns at once.                                     *)
(***************************************************************************)
PluginClasses == {"Net", "PartClassPin", "PartInstancePin", "Part", "PartInstancePort"}

\* type(instance).__mro__ up to object: PartInstancePin derives from PartClassPin.
ClassMRO(cls) ==
    IF cls = "PartInstancePin" THEN <<"PartInstancePin", "PartClassPin">> ELSE <<cls>>

NoPlugins == [attr |-> [c \in PluginClasses |-> 0], sets |-> <<>>, invoked |-> <<>>]

NoAttr == [kind |-> "none", keys |-> {}]

\* cls.plugins: the set object found along the MRO, 0 for the AttributeError.
class_plugins(pl, cls) ==
    LET mro == ClassMRO(cls)
    IN IF \E i \in 1..Len(mro) : pl.attr[mro[i]] # 0
       THEN pl.attr[mro[CHOOSE i \in 1..Len(mro) :
                           /\ pl.attr[mro[i]] # 0
                           /\ \A j \in 1..(i - 1) : pl.attr[mro[j]] = 0]]
       ELSE 0

RECURSIVE Plugin_register(_, _, _)
\* Plugin.register(plugin_targets)(plugin)
Plugin_register(pl, plugin_targets, plugin) ==
    IF plugin_targets = <<>>
    THEN pl
    ELSE LET target_cls == Head(plugin_targets)
             pl1 == IF class_plugins(pl, target_cls) = 0
                    THEN [pl EXCEPT !.sets = Append(@, {}),
                                    !.attr[target_cls] = Len(pl.sets) + 1]
                    ELSE pl
             s == class_plugins(pl1, target_cls)
         IN Plugin_register([pl1 EXCEPT !.sets[s] = @ \cup {plugin}],
                            Tail(plugin_targets), plugin)

\* The elements of a set in the order an iteration meets them.
SetToSeq(S) ==
    CHOOSE s \in [1..Cardinality(S) -> S] : \A i, j \in 1..Cardinality(S) : i # j => s[i] # s[j]

\* instance.plugins read from outside: the object's own attribute, else the class's.
plugins_attr(pl, cls, own) ==
    IF own.kind # "none"
    THEN own
    ELSE IF class_plugins(pl, cls) = 0
         THEN NoAttr
         ELSE [kind |-> "factories", keys |-> pl.sets[class_plugins(pl, cls)]]

\* Plugin.init, line 57: the factories are called in the order the iteration
\* over the set meets them, and the instances stored by factory.
call_factories(pl, cls, instance, factories, order) ==
    [pl |-> [pl EXCEPT !.invoked = @ \o
                [i \in 1..Len(order) |->
                    [factory |-> order[i], cls |-> cls, instance |-> instance]]],
     plugins |-> [kind |-> "instances", keys |-> factories],
     err |-> "none"]

\* Plugin.init(instance); own is the "plugins" entry of the instance's __dict__.
Plugin_init(pl, cls, instance, own) ==
    IF own.kind = "none" /\ class_plugins(pl, cls) = 0
    THEN [pl |-> pl, plugins |-> own, err |-> "none"]
    ELSE IF own.kind = "instances"
         THEN [pl |-> pl, plugins |-> own, err |-> "AssertionError"]
         ELSE call_factories(pl, cls, instance, pl.sets[class_plugins(pl, cls)],
                             SetToSeq(pl.sets[class_plugins(pl, cls)]))

(***************************************************************************)
(* Part: construction, reference designator, get_stuff_to_connect          *)
(*                                                                         *)
(* A part class is [name, PINS, has_PORTS, PORTS, REFDES_PREFIX,           *)
(* pin_names_match_nets, pin_names_match_nets_prefix]: PINS is the list of *)
(* the PINS lists along the MRO, has_PORTS tells whether any class on the  *)
(* MRO has a PORTS attribute (Part itself has none).  A part object is     *)
(* [cls, addr, refdes, pins, pinlist, ports, plugins]: addr is id(part),   *)
(* pins the PartInstancePins in order, pinlist and ports the _PinLists.    *)
(* value, part_number, package and populated are not modelled: nothing     *)
(* here reads them.  Each step of a constructor takes what the steps       *)
(* before it produced as a parameter.                                      *)
(***************************************************************************)
PowerTypes == {"POWER_INPUT", "POWER_OUTPUT"}

\* PartInstancePin.__init__, lines 363-367: self.part.pins[self.well_name], the
\* part's pins being those made so far.
well_lookup(pins, pinlist, well_name) ==
    IF well_name.kind = "none"
    THEN [found |-> TRUE, pin |-> 0]
    ELSE PinList_getitem(pinlist, well_name.v, [k \in 1..Len(pins) |-> pins[k].names])

\* PartInstancePin.__init__, lines 350-361: the copy of the class pin's __dict__
\* (its plugins entry included), the injected number and the well.
pin_object(part_class_pin, inject_number, well) ==
    [names |-> part_class_pin.names,
     numbers |-> IF inject_number # <<>> THEN inject_number ELSE part_class_pin.numbers,
     type |-> part_class_pin.type,
     well_name |-> part_class_pin.well_name,
     well |-> well,
     plugins |-> part_class_pin.plugins]

\* PartInstancePin.__init__, line 372: what Plugin.init left on the pin.
pin_initialised(pin, r) ==
    [pl |-> r.pl, pin |-> [pin EXCEPT !.plugins = r.plugins], err |-> r.err]

\* PartInstancePin.__init__, lines 365-372: KeyError for a well no pin made so
\* far carries, ValueError for a well that is not a power pin, else Plugin.init.
pin_checked(pl, part, pins, pin, well, i) ==
    IF ~well.found
    THEN [pl |-> pl, pin |-> pin, err |-> "KeyError"]
    ELSE IF well.pin # 0 /\ pins[well.pin].type \notin PowerTypes
         THEN [pl |-> pl, pin |-> pin, err |-> "ValueError"]
         ELSE pin_initialised(pin, Plugin_init(pl, "PartInstancePin", <<"pin", part, i>>,
                                               pin.plugins))

\* PartInstancePin.__init__ with the well already looked up.
pin_with_well(pl, part, pins, part_class_pin, inject_number, i, well) ==
    pin_checked(pl, part, pins, pin_object(part_class_pin, inject_number, well.pin),
                well, i)

\* PartInstancePin.__init__ of the i-th pin of a part: pins and pinlist are
\* the part's pins made so far.
PartInstancePin_init(pl, part, pins, pinlist, part_class_pin, inject_number, i) ==
    pin_with_well(pl, part, pins, part_class_pin, inject_number, i,
                  well_lookup(pins, pinlist, part_class_pin.well_name))

\* PartClassPin.__init__ of a resolved pin, line 331: what Plugin.init left.
class_pin(resolved_pin, r) ==
    [names |-> resolved_pin.names, numbers |-> resolved_pin.numbers,
     type |-> resolved_pin.type, well_name |-> resolved_pin.well_name,
     plugins |-> r.plugins]

RECURSIVE class_pins(_, _, _, _, _)
RECURSIVE class_pins_next(_, _, _, _, _)
\* Part._generate_pin_instances, line 547: the PartClassPins of the class, each
\* ending its __init__ with Plugin.init; a resolve that raises ends the list.
class_pins(pl, part, resolved, i, out) ==
    IF i > Len(resolved)
    THEN [pl |-> pl, pins |-> out, err |-> "none"]
    ELSE IF resolved[i].err # "none"
         THEN [pl |-> pl, pins |-> out, err |-> resolved[i].err]
         ELSE class_pins_next(part, resolved, i, out,
                              Plugin_init(pl, "PartClassPin", <<"classpin", part, i>>, NoAttr))

\* Line 547: the next element of the list comprehension.
class_pins_next(part, resolved, i, out, r) ==
    class_pins(r.pl, part, resolved, i + 1, Append(out, class_pin(resolved[i], r)))

RECURSIVE pin_instances(_, _, _, _, _, _)
RECURSIVE pin_instances_next(_, _, _, _, _, _)
\* Part._generate_pin_instances, lines 549-559: the loop over the class's pins.
pin_instances(pl, part, part_class_pins, i, pins, pinlist) ==
    IF i > Len(part_class_pins)
    THEN [pl |-> pl, pins |-> pins, pinlist |-> pinlist, err |-> "none"]
    ELSE pin_instances_next(part, part_class_pins, i, pins, pinlist,
            PartInstancePin_init(pl, part, pins, pinlist, part_class_pins[i],
                                 IF part_class_pins[i].numbers = <<>>
                                 THEN <<ToString(i)>> ELSE <<>>,
                                 i))

\* Lines 556-559: the pin is stored, or what its construction raised is raised.
pin_instances_next(part, part_class_pins, i, pins, pinlist, r) ==
    IF r.err # "none"
    THEN [pl |-> r.pl, pins |-> pins, pinlist |-> pinlist, err |-> r.err]
    ELSE pin_instances(r.pl, part, part_class_pins, i + 1,
                       Append(pins, r.pin), ODSet(pinlist, r.pin.names[1], i))

\* Part._generate_pin_instances, lines 549-559, given the PartClassPins.
instances_of(part, c) ==
    IF c.err # "none"
    THEN [pl |-> c.pl, pins |-> <<>>, pinlist |-> <<>>, err |-> c.err]
    ELSE pin_instances(c.pl, part, c.pins, 1, <<>>, <<>>)

\* Part._generate_pin_instances
generate_pin_instances(pl, part, cls) ==
    instances_of(part, class_pins(pl, part, generate_pins(cls.PINS).pins, 1, <<>>))

RECURSIVE store_ports(_, _, _)
\* Part._generate_port_instances, lines 564-566: self.ports[port.name] = port.
store_ports(ports, made, i) ==
    IF i > Len(made)
    THEN ports
    ELSE store_ports(ODSet(ports, made[i].name, made[i]), made, i + 1)

RECURSIVE port_instances(_, _, _, _)
RECURSIVE port_instances_next(_, _, _, _, _)
\* Part._generate_port_instances, lines 562-566: the loop over self.PORTS.
port_instances(PORTS, pins, i, ports) ==
    IF i > Len(PORTS)
    THEN [ports |-> ports, err |-> "none"]
    ELSE port_instances_next(PORTS, pins, i, ports,
            create_ports(PORTS[i], [k \in 1..Len(pins) |->
                                       [id |-> k, names |-> pins[k].names]]))

\* Lines 564-566: the ports the generator yielded are stored, also those it
\* yielded before it raised.
port_instances_next(PORTS, pins, i, ports, r) ==
    IF r.err # "none"
    THEN [ports |-> store_ports(ports, r.ports, 1), err |-> r.err]
    ELSE port_instances(PORTS, pins, i + 1, store_ports(ports, r.ports, 1))

\* Part._generate_port_instances: self.PORTS is an AttributeError when no class
\* on the MRO declares PORTS.
generate_port_instances(cls, pins) ==
    IF ~cls.has_PORTS
    THEN [ports |-> <<>>, err |-> "AttributeError"]
    ELSE port_instances(cls.PORTS, pins, 1, <<>>)

\* The part object after lines 512-534.
part_object(cls, refdes, addr, p, q) ==
    [cls |-> cls, addr |-> addr, refdes |-> refdes, pins |-> p.pins,
     pinlist |-> p.pinlist, ports |-> q.ports, plugins |-> NoAttr]

\* Part.__init__, line 536: what Plugin.init left on the part.
part_initialised(obj, r) ==
    [pl |-> r.pl, part |-> [obj EXCEPT !.plugins = r.plugins], err |-> r.err]

\* Part.__init__, lines 534-536, given what _generate_pin_instances (p) and
\* _generate_port_instances (q) did.
part_with_ports(part, cls, refdes, addr, p, q) ==
    IF p.err # "none"
    THEN [pl |-> p.pl, part |-> part_object(cls, refdes, addr, p, q), err |-> p.err]
    ELSE IF q.err # "none"
         THEN [pl |-> p.pl, part |-> part_object(cls, refdes, addr, p, q), err |-> q.err]
         ELSE part_initialised(part_object(cls, refdes, addr, p, q),
                               Plugin_init(p.pl, "Part", <<"part", part>>, NoAttr))

\* Part.__init__, lines 533-536, given what _generate_pin_instances (p) did.
part_with_pins(part, cls, refdes, addr, p) ==
    part_with_ports(part, cls, refdes, addr, p, generate_port_instances(cls, p.pins))

\* Part.__init__(refdes=refdes) of the object at address addr, which becomes
\* the part-th part.
Part_init(pl, part, cls, refdes, addr) ==
    part_with_pins(part, cls, refdes, addr, generate_pin_instances(pl, part, cls))

HexDigits == <<"0", "1", "2", "3", "4", "5", "6", "7", "8", "9",
               "a", "b", "c", "d", "e", "f">>

RECURSIVE Hex(_, _)
\* "%0<width>x" % n for an n of at most width digits
Hex(n, width) ==
    IF width = 0 THEN <<>> ELSE Append(Hex(n \div 16, width - 1), HexDigits[(n % 16) + 1])

\* Part._refdes_from_memory_address: "%s?m%05x" % (REFDES_PREFIX, id(self) // 32 & 0xfffff)
refdes_from_memory_address(part) ==
    part.cls.REFDES_PREFIX \o <<"?", "m">> \o Hex((part.addr \div 32) % (2 ^ 20), 5)

\* Part.refdes (getter)
Part_refdes(part) ==
    IF part.refdes.kind # "none" THEN part.refdes.v ELSE refdes_from_memory_address(part)

(***************************************************************************)
(* Port derivation as a function of its inputs                             *)
(***************************************************************************)
MOSI == <<"M", "O", "S", "I">>
MISO == <<"M", "I", "S", "O">>
SCK == <<"S", "C", "K">>
CS == <<"C", "S">>
SS == <<"S", "S">>
CSB == <<"C", "S", "B">>
SPI == <<"S", "P", "I">>

SpiNames == {MOSI, MISO, SCK, CS}

\* All orderings of the four names.
SpiOrders == {f \in [1..4 -> SpiNames] : \A i, j \in 1..4 : i # j => f[i] # f[j]}

PendingPorts == [ports |-> <<>>, err |-> "pending"]

\* Interfaces over the four signals, in any declared order, CS possibly declared
\* with an alternative name, with or without a name attribute, with a pattern
\* that captures the signal alone, a port name and the signal, or any word.
PortInterfaces ==
    {[cls |-> [id |-> "SPI",
               SIGNALS |-> [i \in 1..4 |-> IF f[i] = CS /\ alt
                                           THEN TupleSignal(<<CS, SS>>)
                                           ELSE StrSignal(f[i])]],
      regex |-> r, has_name |-> hn, name |-> IF hn THEN SPI ELSE <<>>] :
        f \in SpiOrders, alt \in BOOLEAN, hn \in BOOLEAN,
        r \in {[kind |-> "alts", port |-> FALSE, alts |-> <<MOSI, MISO, SCK, CS>>],
               [kind |-> "alts", port |-> TRUE, alts |-> <<MOSI, MISO, SCK, CS>>],
               [kind |-> "word", port |-> FALSE, alts |-> <<>>]}}

PinIds == <<"p1", "p2", "p3", "p4", "p5">>

\* Parts: four pins carrying the four names in any order; the same with a fifth
\* pin CSB; two pins with two names each; pins named A_<signal> and B_MOSI.
PortParts ==
    {[i \in 1..4 |-> [id |-> PinIds[i], names |-> <<f[i]>>]] : f \in SpiOrders}
    \cup {[i \in 1..5 |-> [id |-> PinIds[i],
                          names |-> IF i = 5 THEN <<CSB>> ELSE <<f[i]>>]] :
            f \in SpiOrders}
    \cup {<<[id |-> "p1", names |-> <<MISO, MOSI>>],
            [id |-> "p2", names |-> <<CS, SCK>>]>>,
          <<[id |-> "p1", names |-> << <<"A", "_">> \o MOSI >>],
            [id |-> "p2", names |-> << <<"A", "_">> \o MISO >>],
            [id |-> "p3", names |-> << <<"A", "_">> \o SCK >>],
            [id |-> "p4", names |-> << <<"A", "_">> \o CS >>],
            [id |-> "p5", names |-> << <<"B", "_">> \o MOSI >>]>>}

InitPorts ==
    /\ nets = <<>>
    /\ connLists = <<>>
    /\ pinNet = <<>>
    /\ bundleConns = <<>>
    /\ portBundle = <<>>
    /\ lastOp = NoOp
    /\ firstRead = <<>>
    /\ opCount = 0
    /\ resIn = <<>>
    /\ resOut = <<>>
    /\ portIn \in [interface : PortInterfaces, pins : PortParts]
    /\ portOut = PendingPorts
    /\ parts = <<>>
    /\ plug = NoPlugins
    /\ netPlugins = <<>>

\* PartInstancePort._create_ports(interface, part), consumed to the end
DerivePorts ==
    /\ portOut = PendingPorts
    /\ portOut' = create_ports(portIn.interface, portIn.pins)
    /\ UNCHANGED <<nets, connLists, pinNet, bundleConns, portBundle, lastOp,
                   firstRead, opCount, resIn, resOut, portIn, parts, plug, netPlugins>>

NextPorts == DerivePorts

SpecPorts == InitPorts /\ [][NextPorts]_vars

(***************************************************************************)
(* Pin resolution as a function of its inputs: a part type and its base    *)
(* type, with up to MaxFrags PINS elements between them.                   *)
(***************************************************************************)
NameArgs == {StrArg(<<"a">>), TupleArg(<< <<"A">>, <<"B">> >>),
             TupleArg(<< <<"B">>, <<"C">> >>), StrArg(<<"C">>)}

\* The elements a PINS list is built from: bare names, or a Pin of two names
\* with a type.
PinsEntries ==
    {NamesEntry(n) : n \in NameArgs}
    \cup {PinEntry(n, <<[key |-> "type", val |-> t]>>) :
            n \in {m \in NameArgs : m.kind = "tuple"}, t \in {"PRIMARY", "GROUND"}}

\* Every list of up to MaxFrags elements, cut at every place into the PINS of
\* the subclass (first in the MRO) and the PINS of the base class.
ClassLists ==
    UNION {{<<SubSeq(f, 1, k), SubSeq(f, k + 1, Len(f))>> : k \in 0..Len(f)} :
              f \in UNION {[1..n -> PinsEntries] : n \in 0..MaxFrags}}

PendingPins == [groups |-> <<>>, pins |-> <<>>, err |-> "pending"]

InitResolve ==
    /\ nets = <<>>
    /\ connLists = <<>>
    /\ pinNet = <<>>
    /\ bundleConns = <<>>
    /\ portBundle = <<>>
    /\ lastOp = NoOp
    /\ firstRead = <<>>
    /\ opCount = 0
    /\ resIn \in ClassLists
    /\ resOut = PendingPins
    /\ portIn = <<>>
    /\ portOut = <<>>
    /\ parts = <<>>
    /\ plug = NoPlugins
    /\ netPlugins = <<>>

\* Part._generate_pin_instances up to the assignment of the class's pins
GeneratePinInstances ==
    /\ resOut = PendingPins
    /\ resOut' = generate_pins(resIn)
    /\ UNCHANGED <<nets, connLists, pinNet, bundleConns, portBundle, lastOp,
                   firstRead, opCount, resIn, portIn, portOut, parts, plug, netPlugins>>

NextResolve == GeneratePinInstances

SpecResolve == InitResolve /\ [][NextResolve]_vars

(***************************************************************************)
(* The connection engine as a state machine: two Nets, Net("gnd") and      *)
(* Net(), exist next to a part with three unconnected pins.                *)
(***************************************************************************)
EmptyEngine == [nets |-> <<>>, connLists |-> <<>>, pinNet |-> [p \in Pins |-> 0],
                bundleConns |-> <<>>, portBundle |-> <<>>,
                err |-> "none", at |-> 0, ret |-> 0]

InitEngine == Net_init(Net_init(EmptyEngine, <<"g", "n", "d">>), <<>>)

\* What a call may be given: tuples of at most two pins (a pin may repeat), a Net,
\* or an object that is neither a pin, a Part nor a Net.
TargetLists ==
    {<<>>} \cup {<<PinTarget(p)>> : p \in Pins}
           \cup {<<PinTarget(p), PinTarget(q)>> : p \in Pins, q \in Pins}
           \cup {<<NetTarget(1)>>, <<OtherTarget>>}

Init ==
    /\ nets = InitEngine.nets
    /\ connLists = InitEngine.connLists
    /\ pinNet = InitEngine.pinNet
    /\ bundleConns = <<>>
    /\ portBundle = <<>>
    /\ lastOp = NoOp
    /\ firstRead = [p \in Pins |-> 0]
    /\ opCount = 0
    /\ resIn = <<>>
    /\ resOut = <<>>
    /\ portIn = <<>>
    /\ portOut = <<>>
    /\ parts = <<>>
    /\ plug = NoPlugins
    /\ netPlugins = <<>>

\* The heap after a call, and the record of the call.
Commit(st, kind, self, others, dir) ==
    /\ nets' = st.nets
    /\ connLists' = st.connLists
    /\ pinNet' = st.pinNet
    /\ bundleConns' = st.bundleConns
    /\ portBundle' = st.portBundle
    /\ lastOp' = [kind |-> kind, self |-> self, others |-> others, dir |-> dir,
                  err |-> st.err, at |-> st.at,
                  ret |-> IF st.err = "none" THEN st.ret ELSE 0]
    /\ opCount' = opCount + 1
    /\ UNCHANGED <<resIn, resOut, portIn, portOut, parts, plug, netPlugins>>

\* net.connect(others)    (direction defaults to UNKNOWN, returns None)
NetConnect ==
    \E n \in 1..Len(nets), others \in TargetLists :
        /\ opCount < MaxOps
        /\ \E st \in {Net_connect(EngineState, n, others, "UNKNOWN")} :
              Commit([st EXCEPT !.ret = 0], "connect", n, others, "UNKNOWN")
        /\ UNCHANGED firstRead

\* net << others
NetLshift ==
    \E n \in 1..Len(nets), others \in TargetLists :
        /\ opCount < MaxOps
        /\ \E st \in {Net_lshift(EngineState, n, others)} :
              Commit(st, "shift", n, others, "IN")
        /\ UNCHANGED firstRead

\* net >> others
NetRshift ==
    \E n \in 1..Len(nets), others \in TargetLists :
        /\ opCount < MaxOps
        /\ \E st \in {Net_rshift(EngineState, n, others)} :
              Commit(st, "shift", n, others, "OUT")
        /\ UNCHANGED firstRead

\* pin.net
ReadNet ==
    \E p \in Pins :
        /\ opCount < MaxOps
        /\ \E st \in {net_getter(EngineState, p)} :
              /\ Commit(st, "read", 0, <<PinTarget(p)>>, "UNKNOWN")
              /\ firstRead' = IF pinNet[p] = 0 /\ firstRead[p] = 0
                              THEN [firstRead EXCEPT ![p] = st.ret]
                              ELSE firstRead

Next == NetConnect \/ NetLshift \/ NetRshift \/ ReadNet

Spec == Init /\ [][Next]_vars

(***************************************************************************)
(* Bundles as a state machine: a part with the pins A_MOSI, A_MISO, B_MOSI, *)
(* B_MISO, C_MOSI and SDA, whose PORTS are an SPI Interface (signals MOSI,  *)
(* MISO, pattern with a port-name group) and a one-wire Interface TW (one   *)
(* signal, ("MOSI", "SDA"), pattern (SDA)), next to NetBundle(SPI, "X") and *)
(* NetBundle(TW, "Y").                                                      *)
(***************************************************************************)
SDA == <<"S", "D", "A">>

SpiClass == [id |-> "SPI", SIGNALS |-> <<StrSignal(MOSI), StrSignal(MISO)>>]
TwClass == [id |-> "TW", SIGNALS |-> <<TupleSignal(<<MOSI, SDA>>)>>]

BundlePart ==
    <<[id |-> "a1", names |-> << <<"A", "_">> \o MOSI >>],
      [id |-> "a2", names |-> << <<"A", "_">> \o MISO >>],
      [id |-> "b1", names |-> << <<"B", "_">> \o MOSI >>],
      [id |-> "b2", names |-> << <<"B", "_">> \o MISO >>],
      [id |-> "c1", names |-> << <<"C", "_">> \o MOSI >>],
      [id |-> "s1", names |-> <<SDA>>]>>

BundlePins == {BundlePart[i].id : i \in 1..Len(BundlePart)}

\* Part._generate_port_instances: the ports of every Interface in PORTS, in order.
BundlePorts ==
    create_ports([cls |-> SpiClass, has_name |-> FALSE, name |-> <<>>,
                  regex |-> [kind |-> "alts", port |-> TRUE, alts |-> <<MOSI, MISO>>]],
                 BundlePart).ports
    \o create_ports([cls |-> TwClass, has_name |-> TRUE, name |-> <<"T", "W">>,
                     regex |-> [kind |-> "alts", port |-> FALSE, alts |-> <<SDA>>]],
                    BundlePart).ports

EmptyBundleEngine ==
    [nets |-> <<>>, connLists |-> <<>>, pinNet |-> [p \in BundlePins |-> 0],
     bundleConns |-> <<>>, portBundle |-> [i \in 1..Len(BundlePorts) |-> 0],
     err |-> "none", at |-> 0, ret |-> 0]

BundleX == NetBundle_init(EmptyBundleEngine, SpiClass, <<"X">>)
BundleY == NetBundle_init(BundleX.st, TwClass, <<"Y">>)

\* The objects that do not change: the bundles, the ports, the names of the pins.
World ==
    [bundles |-> <<BundleX.bundle, BundleY.bundle>>,
     ports |-> BundlePorts,
     names_of |-> [p \in BundlePins |->
                     BundlePart[CHOOSE i \in 1..Len(BundlePart) : BundlePart[i].id = p].names]]

\* What a bundle call may be given: tuples of at most two ports, or a pin.
BundleTargetLists ==
    {<<PortTarget(i)>> : i \in 1..Len(BundlePorts)}
    \cup {<<PortTarget(i), PortTarget(j)>> : i \in 1..Len(BundlePorts),
                                               j \in 1..Len(BundlePorts)}
    \cup {<<PinTarget("s1")>>}

InitBundle ==
    /\ nets = BundleY.st.nets
    /\ connLists = BundleY.st.connLists
    /\ pinNet = BundleY.st.pinNet
    /\ bundleConns = BundleY.st.bundleConns
    /\ portBundle = BundleY.st.portBundle
    /\ lastOp = NoOp
    /\ firstRead = <<>>
    /\ opCount = 0
    /\ resIn = <<>>
    /\ resOut = <<>>
    /\ portIn = <<>>
    /\ portOut = <<>>
    /\ parts = <<>>
    /\ plug = NoPlugins
    /\ netPlugins = <<>>

\* bundle.connect(others)
BundleConnect ==
    \E b \in 1..Len(World.bundles), others \in BundleTargetLists :
        /\ opCount < MaxOps
        /\ \E st \in {NetBundle_connect(EngineState, World, b, others, "UNKNOWN")} :
              Commit(st, "bundle_connect", b, others, "UNKNOWN")
        /\ UNCHANGED firstRead

\* bundle << others, bundle >> others
BundleShift ==
    \E b \in 1..Len(World.bundles), others \in BundleTargetLists, d \in {"IN", "OUT"} :
        /\ opCount < MaxOps
        /\ \E st \in {NetBundle_shift(EngineState, World, b, d, others)} :
              Commit(st, "bundle_shift", b, others, d)
        /\ UNCHANGED firstRead

\* net.connect(pin) on one of the Nets of a bundle
BundleNetConnect ==
    \E n \in 1..Len(nets), p \in BundlePins :
        /\ opCount < MaxOps
        /\ \E st \in {Net_connect(EngineState, n, <<PinTarget(p)>>, "UNKNOWN")} :
              Commit([st EXCEPT !.ret = 0], "connect", n, <<PinTarget(p)>>, "UNKNOWN")
        /\ UNCHANGED firstRead

NextBundle == BundleConnect \/ BundleShift \/ BundleNetConnect

SpecBundle == InitBundle /\ [][NextBundle]_vars

(***************************************************************************)
(* Parts as a state machine: the part types R (two pins and nothing else)  *)
(* and RP (the same pins and an empty PORTS list) are instantiated, with   *)
(* or without a reference designator, at addresses the allocator picks,    *)
(* and Net("GND") is connected to their pins.                              *)
(***************************************************************************)
MaxParts == 2

GND == <<"G", "N", "D">>
UNK == <<"U", "N", "K">>

\* class R(Part): PINS = ["P1", "P2"]
ClassR ==
    [name |-> "R",
     PINS |-> << <<NamesEntry(StrArg(<<"P", "1">>)), NamesEntry(StrArg(<<"P", "2">>))>> >>,
     has_PORTS |-> FALSE, PORTS |-> <<>>, REFDES_PREFIX |-> UNK,
     pin_names_match_nets |-> FALSE, pin_names_match_nets_prefix |-> <<>>]

\* class RP(Part): PINS = ["P1", "P2"]; PORTS = []
ClassRP == [ClassR EXCEPT !.name = "RP", !.has_PORTS = TRUE]

\* Addresses id() may give to a part: objects allocated next to each other,
\* and one allocated 2^25 bytes further on.
Addresses == {4096, 4192, 4096 + 2 ^ 25}

ClassTarget(cls) == [kind |-> "class", id |-> cls.name, cls |-> cls]

InitPart ==
    /\ nets = Net_init(EmptyEngine, GND).nets
    /\ connLists = Net_init(EmptyEngine, GND).connLists
    /\ pinNet = <<>>
    /\ bundleConns = <<>>
    /\ portBundle = <<>>
    /\ lastOp = NoOp
    /\ firstRead = <<>>
    /\ opCount = 0
    /\ resIn = <<>>
    /\ resOut = <<>>
    /\ portIn = <<>>
    /\ portOut = <<>>
    /\ parts = <<>>
    /\ plug = NoPlugins
    /\ netPlugins = <<>>

\* The object ids of the pins of the k-th part.
PartPins(k) == {<<k, i>> : i \in 1..Len(parts[k].pins)}

\* part = cls() or cls(refdes=...): a construction that raises leaves no part.
ConstructPart ==
    \E cls \in {ClassR, ClassRP},
       refdes \in {NoneArg, StrArg(<<"R", "1">>)},
       addr \in Addresses \ {parts[k].addr : k \in 1..Len(parts)} :
        /\ Len(parts) < MaxParts
        /\ \E r \in {Part_init(plug, Len(parts) + 1, cls, refdes, addr)} :
              /\ parts' = IF r.err = "none" THEN Append(parts, r.part) ELSE parts
              /\ pinNet' = IF r.err = "none"
                           THEN [p \in DOMAIN pinNet \cup
                                       {<<Len(parts) + 1, i>> : i \in 1..Len(r.part.pins)} |->
                                    IF p \in DOMAIN pinNet THEN pinNet[p] ELSE 0]
                           ELSE pinNet
              /\ plug' = r.pl
              /\ lastOp' = [kind |-> "Part", self |-> 0, others |-> <<ClassTarget(cls)>>,
                            dir |-> "UNKNOWN", err |-> r.err, at |-> 0,
                            ret |-> IF r.err = "none" THEN Len(parts) + 1 ELSE 0]
        /\ UNCHANGED <<nets, connLists, bundleConns, portBundle, firstRead, opCount,
                       resIn, resOut, portIn, portOut, netPlugins>>

\* net.connect(part.pins[i])
PartNetConnect ==
    \E n \in 1..Len(nets), k \in 1..Len(parts) :
        \E p \in PartPins(k) :
            /\ opCount < MaxOps
            /\ \E st \in {Net_connect(EngineState, n, <<PinTarget(p)>>, "UNKNOWN")} :
                  Commit([st EXCEPT !.ret = 0], "connect", n, <<PinTarget(p)>>, "UNKNOWN")
            /\ UNCHANGED firstRead

\* net << part.pins[i]
PartNetShift ==
    \E n \in 1..Len(nets), k \in 1..Len(parts) :
        \E p \in PartPins(k) :
            /\ opCount < MaxOps
            /\ \E st \in {Net_lshift(EngineState, n, <<PinTarget(p)>>)} :
                  Commit(st, "shift", n, <<PinTarget(p)>>, "IN")
            /\ UNCHANGED firstRead

NextPart == ConstructPart \/ PartNetConnect \/ PartNetShift

SpecPart == InitPart /\ [][NextPart]_vars

(***************************************************************************)
(* Plugins as a state machine: factories P and Q are registered on classes *)
(* while Nets and parts (two pins, one SPI port) are constructed.          *)
(***************************************************************************)
Factories == {"P", "Q"}

\* What Plugin.register is given: one class, or a tuple of classes.
PluginTargets ==
    {<<c>> : c \in PluginClasses}
    \cup {<<"Net", "PartInstancePin", "Part", "PartInstancePort">>}

\* class Flash(Part): PINS = ["MOSI", "MISO"]; PORTS = [SPI], the Interface
\* SPI having the signals MOSI and MISO and the name "SPI".
ClassFlash ==
    [name |-> "Flash",
     PINS |-> << <<NamesEntry(StrArg(MOSI)), NamesEntry(StrArg(MISO))>> >>,
     has_PORTS |-> TRUE,
     PORTS |-> <<[cls |-> SpiClass, has_name |-> TRUE, name |-> SPI,
                  regex |-> [kind |-> "alts", port |-> FALSE, alts |-> <<MOSI, MISO>>]]>>,
     REFDES_PREFIX |-> UNK,
     pin_names_match_nets |-> FALSE, pin_names_match_nets_prefix |-> <<>>]

InitPlugin ==
    /\ nets = <<>>
    /\ connLists = <<>>
    /\ pinNet = <<>>
    /\ bundleConns = <<>>
    /\ portBundle = <<>>
    /\ lastOp = NoOp
    /\ firstRead = <<>>
    /\ opCount = 0
    /\ resIn = <<>>
    /\ resOut = <<>>
    /\ portIn = <<>>
    /\ portOut = <<>>
    /\ parts = <<>>
    /\ plug = NoPlugins
    /\ netPlugins = <<>>

\* @Plugin.register(plugin_targets) class plugin(Plugin): ...
RegisterPlugin ==
    \E plugin \in Factories, plugin_targets \in PluginTargets :
        /\ opCount <= MaxOps
        /\ plug' = Plugin_register(plug, plugin_targets, plugin)
        /\ lastOp' = [NoOp EXCEPT !.kind = "register"]
        /\ opCount' = opCount + 1
        /\ UNCHANGED <<nets, connLists, pinNet, bundleConns, portBundle, firstRead,
                       resIn, resOut, portIn, portOut, parts, netPlugins>>

\* Net(): __init__ ends with Plugin.init(self).
ConstructNet ==
    /\ Len(nets) < MaxParts
    /\ opCount <= MaxOps
    /\ opCount' = opCount + 1
    /\ \E st \in {Net_init(EngineState, <<>>)} :
          \E r \in {Plugin_init(plug, "Net", <<"net", st.ret>>, NoAttr)} :
              /\ nets' = IF r.err = "none" THEN st.nets ELSE nets
              /\ connLists' = IF r.err = "none" THEN st.connLists ELSE connLists
              /\ netPlugins' = IF r.err = "none" THEN Append(netPlugins, r.plugins)
                               ELSE netPlugins
              /\ plug' = r.pl
              /\ lastOp' = [NoOp EXCEPT !.kind = "Net", !.err = r.err,
                                        !.ret = IF r.err = "none" THEN st.ret ELSE 0]
    /\ UNCHANGED <<pinNet, bundleConns, portBundle, firstRead,
                   resIn, resOut, portIn, portOut, parts>>

\* Flash()
ConstructFlash ==
    /\ Len(parts) < MaxParts
    /\ opCount <= MaxOps
    /\ opCount' = opCount + 1
    /\ \E r \in {Part_init(plug, Len(parts) + 1, ClassFlash, NoneArg, 4096 + 96 * Len(parts))} :
          /\ parts' = IF r.err = "none" THEN Append(parts, r.part) ELSE parts
          /\ plug' = r.pl
          /\ lastOp' = [NoOp EXCEPT !.kind = "Part", !.others = <<ClassTarget(ClassFlash)>>,
                                    !.err = r.err,
                                    !.ret = IF r.err = "none" THEN Len(parts) + 1 ELSE 0]
    /\ UNCHANGED <<nets, connLists, pinNet, bundleConns, portBundle, firstRead,
                   resIn, resOut, portIn, portOut, netPlugins>>

NextPlugin == RegisterPlugin \/ ConstructNet \/ ConstructFlash

SpecPlugin == InitPlugin /\ [][NextPlugin]_vars

(***************************************************************************)
(* Matching pins by net name: a part with the pins MOSI, MISO, SCK and CS, *)
(* with or without pin_names_match_nets and with one of three prefixes,    *)
(* and named Nets shifted onto the bare part.                              *)
(***************************************************************************)
SPI1 == <<"S", "P", "I", "1">>

MatchPrefixes == {<<>>, SPI1, SPI1 \o <<"_">>}

\* class SPIFlash(Part): pin_names_match_nets = match;
\* pin_names_match_nets_prefix = prefix; PINS = ["MOSI", "MISO", "SCK", "CS"]
ClassSPIFlash(match, prefix) ==
    [name |-> "SPIFlash",
     PINS |-> << <<NamesEntry(StrArg(MOSI)), NamesEntry(StrArg(MISO)),
                   NamesEntry(StrArg(SCK)), NamesEntry(StrArg(CS))>> >>,
     has_PORTS |-> TRUE, PORTS |-> <<>>, REFDES_PREFIX |-> UNK,
     pin_names_match_nets |-> match, pin_names_match_nets_prefix |-> prefix]

\* The names the Nets are given.
MatchNetNames == {pre \o sig : pre \in MatchPrefixes, sig \in SpiNames}

\* The k-th part as a target of Net.connect.
BarePart(k) ==
    PartTarget(k, [pin_names_match_nets |-> parts[k].cls.pin_names_match_nets,
                   pin_names_match_nets_prefix |-> parts[k].cls.pin_names_match_nets_prefix,
                   pins |-> [i \in 1..Len(parts[k].pins) |->
                               [id |-> <<k, i>>, names |-> parts[k].pins[i].names]]])

InitMatch ==
    /\ nets = <<>>
    /\ connLists = <<>>
    /\ pinNet = [p \in {<<1, i>> : i \in 1..4} |-> 0]
    /\ bundleConns = <<>>
    /\ portBundle = <<>>
    /\ lastOp = NoOp
    /\ firstRead = <<>>
    /\ opCount = 0
    /\ resIn = <<>>
    /\ resOut = <<>>
    /\ portIn = <<>>
    /\ portOut = <<>>
    /\ \E match \in BOOLEAN, prefix \in MatchPrefixes :
          parts = <<Part_init(NoPlugins, 1, ClassSPIFlash(match, prefix), NoneArg, 4096).part>>
    /\ plug = NoPlugins
    /\ netPlugins = <<>>

\* Net(name)
MatchNet ==
    \E name \in MatchNetNames :
        /\ Cardinality({n \in 1..Len(nets) : nets[n].parent = 0}) < MaxParts
        /\ \E st \in {Net_init(EngineState, name)} :
              /\ nets' = st.nets
              /\ connLists' = st.connLists
              /\ lastOp' = [NoOp EXCEPT !.kind = "Net", !.ret = st.ret]
        /\ UNCHANGED <<pinNet, bundleConns, portBundle, firstRead, opCount, resIn,
                       resOut, portIn, portOut, parts, plug, netPlugins>>

\* net << part, net >> part
MatchShift ==
    \E n \in 1..Len(nets), direction \in {"IN", "OUT"} :
        /\ opCount < MaxOps
        /\ \E st \in {Net_shift(EngineState, n, direction, <<BarePart(1)>>)} :
              Commit(st, "shift", n, <<BarePart(1)>>, direction)
        /\ UNCHANGED firstRead

NextMatch == MatchNet \/ MatchShift

SpecMatch == InitMatch /\ [][NextMatch]_vars

(***************************************************************************)
(* Wells: part types with a pin IO that names its well and one other pin,  *)
(* declared before or after it, instantiated.                              *)
(***************************************************************************)
IO == <<"I", "O">>
VCC == <<"V", "C", "C">>
VDD == <<"V", "D", "D">>

\* class W(Part): PORTS = []; PINS = [Pin(names, type=type), Pin("IO", well=well)]
\* in this order (first) or the other; type "UNKNOWN" stands for no type given.
WellClass(names, type, well, first) ==
    LET other == PinEntry(names, IF type = "UNKNOWN" THEN <<>>
                                 ELSE <<[key |-> "type", val |-> type]>>)
        io == PinEntry(StrArg(IO), <<[key |-> "well", val |-> StrArg(well)]>>)
    IN [name |-> "W",
        PINS |-> << IF first THEN <<other, io>> ELSE <<io, other>> >>,
        has_PORTS |-> TRUE, PORTS |-> <<>>, REFDES_PREFIX |-> UNK,
        pin_names_match_nets |-> FALSE, pin_names_match_nets_prefix |-> <<>>]

WellClasses ==
    {WellClass(names, type, well, first) :
        names \in {StrArg(VCC), TupleArg(<<VDD, VCC>>), StrArg(GND)},
        type \in {"POWER_INPUT", "POWER_OUTPUT", "PRIMARY", "UNKNOWN"},
        well \in {VCC, <<"v", "c", "c">>, IO},
        first \in BOOLEAN}

InitWell ==
    /\ nets = <<>>
    /\ connLists = <<>>
    /\ pinNet = <<>>
    /\ bundleConns = <<>>
    /\ portBundle = <<>>
    /\ lastOp = NoOp
    /\ firstRead = <<>>
    /\ opCount = 0
    /\ resIn = <<>>
    /\ resOut = <<>>
    /\ portIn = <<>>
    /\ portOut = <<>>
    /\ parts = <<>>
    /\ plug = NoPlugins
    /\ netPlugins = <<>>

\* W(): a construction that raises leaves no part.
InstantiateWell ==
    \E cls \in WellClasses :
        /\ Len(parts) < MaxParts
        /\ \E r \in {Part_init(plug, Len(parts) + 1, cls, NoneArg, 4096 + 96 * Len(parts))} :
              /\ parts' = IF r.err = "none" THEN Append(parts, r.part) ELSE parts
              /\ lastOp' = [NoOp EXCEPT !.kind = "Part", !.others = <<ClassTarget(cls)>>,
                                        !.err = r.err,
                                        !.ret = IF r.err = "none" THEN Len(parts) + 1 ELSE 0]
        /\ UNCHANGED <<nets, connLists, pinNet, bundleConns, portBundle, firstRead, opCount,
                       resIn, resOut, portIn, portOut, plug, netPlugins>>

NextWell == InstantiateWell

SpecWell == InitWell /\ [][NextWell]_vars

(***************************************************************************)
(* The resolver over PinSpecs that assign type, well and number: class     *)
(* hierarchies of fixed alias shapes, every PinSpec with any of the        *)
(* assignments below.                                                      *)
(***************************************************************************)
\* The keyword arguments of a Pin: nothing, a type (also the default one
\* written out), a well (also None written out), or both.
KwArgs ==
    {<<>>}
    \cup {<<[key |-> "type", val |-> t]>> : t \in {"UNKNOWN", "PRIMARY", "GROUND"}}
    \cup {<<[key |-> "well", val |-> w]>> : w \in {NoneArg, StrArg(VCC)}}
    \cup {<<[key |-> "type", val |-> "PRIMARY"], [key |-> "well", val |-> StrArg(VCC)]>>}

\* The second argument of a Pin: no number, "5" or "7".
NumberArgs == {NoneArg, StrArg(<<"5">>), StrArg(<<"7">>)}

\* The aliases of the PinSpecs, most derived class first:
\*   Sub ["A"], Base ["A"];   Sub ["a", ("B", "C")], Base [("A", "B")];
\*   Sub [("A", "B")], Base [("B", "C"), "C"];   Sub ["A"], Mid [("A", "B")], Base ["B"].
KwShapes ==
    {<< <<StrArg(<<"A">>)>>, <<StrArg(<<"A">>)>> >>,
     << <<StrArg(<<"a">>), TupleArg(<< <<"B">>, <<"C">> >>)>>,
        <<TupleArg(<< <<"A">>, <<"B">> >>)>> >>,
     << <<TupleArg(<< <<"A">>, <<"B">> >>)>>,
        <<TupleArg(<< <<"B">>, <<"C">> >>), StrArg(<<"C">>)>> >>,
     << <<StrArg(<<"A">>)>>, <<TupleArg(<< <<"A">>, <<"B">> >>)>>, <<StrArg(<<"B">>)>> >>}

\* A hierarchy of the given shape with the given Pins' arguments, f indexed by
\* the position of the PinSpec in the MRO-ordered list of all PinSpecs.
KwClassList(shape, f) ==
    [c \in 1..Len(shape) |->
        [i \in 1..Len(shape[c]) |->
            NumberedEntry(shape[c][i],
                          f[Len(Flatten(SubSeq(shape, 1, c - 1))) + i][1],
                          f[Len(Flatten(SubSeq(shape, 1, c - 1))) + i][2])]]

InitResolveKw ==
    /\ nets = <<>>
    /\ connLists = <<>>
    /\ pinNet = <<>>
    /\ bundleConns = <<>>
    /\ portBundle = <<>>
    /\ lastOp = NoOp
    /\ firstRead = <<>>
    /\ opCount = 0
    /\ \E shape \in KwShapes :
          \E f \in [1..Len(Flatten(shape)) -> NumberArgs \X KwArgs] :
              resIn = KwClassList(shape, f)
    /\ resOut = PendingPins
    /\ portIn = <<>>
    /\ portOut = <<>>
    /\ parts = <<>>
    /\ plug = NoPlugins
    /\ netPlugins = <<>>

SpecResolveKw == InitResolveKw /\ [][NextResolve]_vars

(***************************************************************************)
(* Shifts applied to pins: pin << others and pin >> others on the pins a,  *)
(* b and c, connected or not.                                              *)
(***************************************************************************)
\* What a pin shift may be given: one pin, or two different pins.
PinTargetLists ==
    {<<PinTarget(p)>> : p \in Pins}
    \cup {<<PinTarget(pq[1]), PinTarget(pq[2])>> :
             pq \in {xy \in Pins \X Pins : xy[1] # xy[2]}}

\* pin << others: the call is recorded with the pin in front of the targets.
PinLshift ==
    \E p \in Pins, others \in PinTargetLists :
        /\ opCount < MaxOps
        /\ \E st \in {PartInstancePin_lshift(EngineState, p, others)} :
              Commit(st, "pinshift", 0, <<PinTarget(p)>> \o others, "IN")
        /\ UNCHANGED firstRead

\* pin >> others
PinRshift ==
    \E p \in Pins, others \in PinTargetLists :
        /\ opCount < MaxOps
        /\ \E st \in {PartInstancePin_rshift(EngineState, p, others)} :
              Commit(st, "pinshift", 0, <<PinTarget(p)>> \o others, "OUT")
        /\ UNCHANGED firstRead

NextPin == PinLshift \/ PinRshift

SpecPin == Init /\ [][NextPin]_vars

(***************************************************************************)
(* A part type that only inherits: class Sub(Base): pass.  Sub has no PINS *)
(* of its own, so Sub.PINS is the list object of the nearest class that    *)
(* declares one, and the classes of Sub's MRO contribute that list twice.  *)
(***************************************************************************)
\* The aliases of the parent type's PinSpecs, most derived class first:
\*   Base ["A"];   Base [("A", "B"), "C"];   Base [("A", "B"), ("B", "C")];
\*   Base ["A"], Root ["A"];   Base ["a", ("B", "C")], Root [("A", "B")].
InheritShapes ==
    {<< <<StrArg(<<"A">>)>> >>,
     << <<TupleArg(<< <<"A">>, <<"B">> >>), StrArg(<<"C">>)>> >>,
     << <<TupleArg(<< <<"A">>, <<"B">> >>), TupleArg(<< <<"B">>, <<"C">> >>)>> >>,
     << <<StrArg(<<"A">>)>>, <<StrArg(<<"A">>)>> >>,
     << <<StrArg(<<"a">>), TupleArg(<< <<"B">>, <<"C">> >>)>>,
        <<TupleArg(<< <<"A">>, <<"B">> >>)>> >>}

\* [cls.PINS for cls in part_superclasses] of a class that declares no PINS
\* and derives from the class whose list this is.
InheritedClassList(cls_list) == <<cls_list[1]>> \o cls_list

\* resIn is the parent type's hierarchy.
InitInherit ==
    /\ nets = <<>>
    /\ connLists = <<>>
    /\ pinNet = <<>>
    /\ bundleConns = <<>>
    /\ portBundle = <<>>
    /\ lastOp = NoOp
    /\ firstRead = <<>>
    /\ opCount = 0
    /\ \E shape \in InheritShapes :
          \E f \in [1..Len(Flatten(shape)) -> NumberArgs \X KwArgs] :
              resIn = KwClassList(shape, f)
    /\ resOut = PendingPins
    /\ portIn = <<>>
    /\ portOut = <<>>
    /\ parts = <<>>
    /\ plug = NoPlugins
    /\ netPlugins = <<>>

\* Part._generate_pin_instances of the parent type, up to the assignment of
\* the class's pins.
GenerateParentPins ==
    /\ resOut = PendingPins
    /\ resOut' = generate_pins(resIn)
    /\ lastOp' = [NoOp EXCEPT !.kind = "parent"]
    /\ UNCHANGED <<nets, connLists, pinNet, bundleConns, portBundle,
                   firstRead, opCount, resIn, portIn, portOut, parts, plug, netPlugins>>

\* The same of the type that only inherits from it.
GenerateInheritedPins ==
    /\ resOut = PendingPins
    /\ resOut' = generate_pins(InheritedClassList(resIn))
    /\ lastOp' = [NoOp EXCEPT !.kind = "inherit"]
    /\ UNCHANGED <<nets, connLists, pinNet, bundleConns, portBundle,
                   firstRead, opCount, resIn, portIn, portOut, parts, plug, netPlugins>>

NextInherit == GenerateParentPins \/ GenerateInheritedPins

SpecInherit == InitInherit /\ [][NextInherit]_vars

(***************************************************************************)
(* Derived views next to their base Net: Net("gnd") and Net(), connects    *)
(* and shifts on them and on the views their shifts returned, and renames. *)
(***************************************************************************)
\* What a call is given here: one pin, or the pins a and b.
ViewTargetLists ==
    {<<PinTarget(p)>> : p \in Pins} \cup {<<PinTarget("a"), PinTarget("b")>>}

InitView ==
    /\ nets = InitEngine.nets
    /\ connLists = InitEngine.connLists
    /\ pinNet = InitEngine.pinNet
    /\ bundleConns = <<>>
    /\ portBundle = <<>>
    /\ lastOp = NoOp
    /\ firstRead = [p \in Pins |-> 0]
    /\ opCount = 0
    /\ resIn = <<>>
    /\ resOut = <<>>
    /\ portIn = <<>>
    /\ portOut = <<>>
    /\ parts = <<>>
    /\ plug = NoPlugins
    /\ netPlugins = <<>>

\* net.connect(others) on the Net or on a view
ViewConnect ==
    \E n \in 1..Len(nets), others \in ViewTargetLists :
        /\ opCount <= MaxOps
        /\ \E st \in {Net_connect(EngineState, n, others, "UNKNOWN")} :
              Commit([st EXCEPT !.ret = 0], "connect", n, others, "UNKNOWN")
        /\ UNCHANGED firstRead

\* net << others on the Net or on a view
ViewShift ==
    \E n \in 1..Len(nets), others \in ViewTargetLists :
        /\ opCount <= MaxOps
        /\ \E st \in {Net_lshift(EngineState, n, others)} :
              Commit(st, "shift", n, others, "IN")
        /\ UNCHANGED firstRead

\* net.name = "agnd" on the Net or on a view
Rename ==
    \E n \in 1..Len(nets) :
        /\ opCount <= MaxOps
        /\ \E st \in {Net_name_setter(EngineState, n, <<"a", "g", "n", "d">>)} :
              Commit([st EXCEPT !.ret = 0], "rename", n, <<>>, "UNKNOWN")
        /\ UNCHANGED firstRead

NextView == ViewConnect \/ ViewShift \/ Rename

SpecView == InitView /\ [][NextView]_vars

(***************************************************************************)
(* Properties of the connection engine                                     *)
(***************************************************************************)
NetCalls == {"connect", "shift"}

\* The pins named by a tuple of pin targets, in order.
PinsOf(others) == [i \in 1..Len(others) |-> others[i].id]

\* The number of (Net list, group) places that hold pin p.
Occurrences(p) ==
    Cardinality(UNION {{<<r, g>> : g \in {h \in 1..Len(connLists[r]) :
                                     \E j \in 1..Len(connLists[r][h]) :
                                         connLists[r][h][j].pin = p}} :
                       r \in 1..Len(connLists)})

\* C1: once a pin's net reference is set, every further Net connect or shift
\* that names the pin as a target raises, for the identical Net as for any
\* other, and leaves the pin's net reference as it was.
C1_PinNetWriteOnce ==
    [][\A p \in Pins :
          (/\ pinNet[p] # 0
           /\ lastOp'.kind \in NetCalls
           /\ InSeq(PinTarget(p), lastOp'.others))
          => (lastOp'.err # "none" /\ pinNet'[p] = pinNet[p])]_vars

\* C1 witness: a one-target call on the very Net the pin is already on raised.
C1_Witness ==
    /\ lastOp.kind \in NetCalls
    /\ lastOp.err = "ValueError"
    /\ Len(lastOp.others) = 1
    /\ lastOp.others[1].kind = "pin"
    /\ pinNet[lastOp.others[1].id] = lastOp.self

\* C2: in every reachable state, also after a call that raised, a pin that
\* occurs in a connection group occurs in exactly one group of exactly one Net.
C2_PinInOneGroup == \A p \in Pins : Occurrences(p) <= 1

\* C3: a connect or shift called on a base Net opens exactly one new group, and
\* when the call returns that group holds exactly the call's targets in order:
\* grouped connections gain that one tuple at the end and the flattened
\* connections gain the targets at the end.
C3_BaseCallOpensOneGroup ==
    [][(lastOp'.kind \in NetCalls /\ nets[lastOp'.self].group = 0) =>
          LET n == lastOp'.self
              before == grouped_connections(n)
              after == grouped_connections_in(nets', connLists', n)
          IN /\ Len(after) = Len(before) + 1
             /\ SubSeq(after, 1, Len(before)) = before
             /\ lastOp'.err = "none" =>
                   /\ after = Append(before, PinsOf(lastOp'.others))
                   /\ Flatten(after) = connections(n) \o PinsOf(lastOp'.others)]_vars

\* C3 witness: net << (a, b) then net << c left ((a, b), (c,)) and (a, b, c).
C3_Witness ==
    /\ lastOp.kind = "shift"
    /\ lastOp.self = 1
    /\ lastOp.err = "none"
    /\ lastOp.others = <<PinTarget("c")>>
    /\ grouped_connections(1) = << <<"a", "b">>, <<"c">> >>
    /\ connections(1) = <<"a", "b", "c">>

\* C4: every read of .net after the first one on a never-connected pin returns
\* the very Net object the first read returned.
C4_ReadReturnsSameNet ==
    (lastOp.kind = "read" /\ firstRead[lastOp.others[1].id] # 0)
        => lastOp.ret = firstRead[lastOp.others[1].id]

\* C5 as stated: a shift of a Net without any connection group returns that
\* very Net; a shift of a Net that has one returns a distinct copy whose parent
\* is the Net and whose group is the one this shift opened.
C5_ShiftAsStated ==
    [][(lastOp'.kind = "shift" /\ lastOp'.err = "none") =>
          LET n == lastOp'.self
              ref == nets[n].conns
              r == lastOp'.ret
          IN IF connLists[ref] = <<>>
             THEN r = n
             ELSE /\ r # n
                  /\ nets'[r].parent = n
                  /\ Len(connLists'[ref]) = Len(connLists[ref]) + 1
                  /\ nets'[r].group = Len(connLists'[ref])]_vars

\* C5 amended: a shift of a Net that is not itself a derived view (it has no
\* group attribute, whether or not it already holds groups) leaves that object
\* in the heap and returns a new object, a shallow copy sharing its connection
\* list, whose parent is the Net and whose group is the one group this shift
\* opened; a shift of a derived view opens no group and returns that very view.
C5_ShiftViewOrSelf ==
    [][(lastOp'.kind = "shift" /\ lastOp'.err = "none") =>
          LET n == lastOp'.self
              ref == nets[n].conns
              r == lastOp'.ret
          IN IF nets[n].group = 0
             THEN /\ r = Len(nets) + 1
                  /\ Len(nets') = Len(nets) + 1
                  /\ nets'[r].parent = n
                  /\ nets'[r].conns = ref
                  /\ Len(connLists'[ref]) = Len(connLists[ref]) + 1
                  /\ nets'[r].group = Len(connLists'[ref])
                  /\ nets'[r].name = nets[n].name
                  /\ nets'[r].has_name = nets[n].has_name
             ELSE /\ r = n
                  /\ Len(nets') = Len(nets)
                  /\ Len(connLists'[ref]) = Len(connLists[ref])
                  /\ nets'[n].group = nets[n].group
                  /\ nets'[n].parent = nets[n].parent]_vars

\* C5 witness: a shift made on a derived view returned that same view.
C5_Witness ==
    /\ lastOp.kind = "shift"
    /\ lastOp.err = "none"
    /\ lastOp.ret = lastOp.self
    /\ nets[lastOp.self].parent # 0
    /\ \E p \in Pins : pinNet[p] = lastOp.self

(***************************************************************************)
(* Properties of port derivation                                           *)
(***************************************************************************)
\* The names carried by the pins of a part.
PartAliases(pins) == UNION {SeqToSet(pins[i].names) : i \in 1..Len(pins)}

\* The case C10 is about: the Interface declares the four signals and has a
\* name, its pattern has no port-name group and captures exactly the alias on
\* every alias of the part, and the part's pins carry exactly the four aliases.
C10_Case ==
    LET interface == portIn.interface
        SIGNALS == interface.cls.SIGNALS
    IN /\ Len(SIGNALS) = 4
       /\ {SIGNALS[i].names[1] : i \in 1..4} = SpiNames
       /\ interface.has_name
       /\ ~interface.regex.port
       /\ \A a \in PartAliases(portIn.pins) :
             regex_match(interface.regex, a) = [ok |-> TRUE, groups |-> <<a>>]
       /\ PartAliases(portIn.pins) = SpiNames

\* C10: in that case port derivation yields exactly one Port, named with the
\* Interface's name, whose signal-to-pin mapping has exactly the four signals,
\* each mapped to the pin that carries that alias.
C10_OnePortAllSignals ==
    (portOut # PendingPorts /\ C10_Case) =>
        /\ portOut.err = "none"
        /\ Len(portOut.ports) = 1
        /\ portOut.ports[1].name = portIn.interface.name
        /\ portOut.ports[1].interface = portIn.interface
        /\ Len(portOut.ports[1].pins) = 4
        /\ \A s \in SpiNames :
              /\ ODHas(portOut.ports[1].pins, s)
              /\ \E i \in 1..Len(portIn.pins) :
                    /\ portIn.pins[i].id = ODGet(portOut.ports[1].pins, s)
                    /\ InSeq(s, portIn.pins[i].names)

\* C10 witness: the one Port was derived for a part whose pins are declared in
\* another order than the Interface's signals.
C10_Witness ==
    /\ portOut # PendingPorts
    /\ C10_Case
    /\ Len(portOut.ports) = 1
    /\ Len(portOut.ports[1].pins) = 4
    /\ portIn.interface.regex.kind = "alts"
    /\ portIn.pins[1].names = <<CS>>
    /\ portIn.interface.cls.SIGNALS[1] = StrSignal(MOSI)

(***************************************************************************)
(* Properties of pin resolution                                            *)
(***************************************************************************)
\* The PINS elements of all layers, most derived layer first.
AllEntries == Flatten(resIn)

EntryAliases(e) ==
    {Upper(n) : n \in SeqToSet(IF e.names.kind = "str" THEN <<e.names.v>> ELSE e.names.v)}

EntryType(e) == IF ODHas(e.kwargs, "type") THEN ODGet(e.kwargs, "type") ELSE "unset"

\* Two PinSpecs share at least one alias.
Linked(i, j) == EntryAliases(AllEntries[i]) \cap EntryAliases(AllEntries[j]) # {}

RECURSIVE ChainClosure(_)
\* Everything linked to a member of S by a chain of PinSpecs.
ChainClosure(S) ==
    LET T == S \cup {j \in 1..Len(AllEntries) : \E i \in S : Linked(i, j)}
    IN IF T = S THEN S ELSE ChainClosure(T)

\* The places (group, position) at which PinSpec i occurs in the groups.
PlacesOf(out, i) ==
    {<<g, k>> \in (1..Len(out.groups)) \X (1..Len(AllEntries)) :
        k <= Len(out.groups[g]) /\ out.groups[g][k].id = i}

GroupsOf(out, i) == {pl[1] : pl \in PlacesOf(out, i)}

AliasSets(out) == {SeqToSet(out.pins[g].names) : g \in 1..Len(out.pins)}

Orderings(n) == {p \in [1..n -> 1..n] : \A i, j \in 1..n : i # j => p[i] # p[j]}

\* The PinSpecs in the order p, the first k of them in the subclass.
Rearranged(p, k) ==
    LET f == [i \in 1..Len(AllEntries) |-> AllEntries[p[i]]]
    IN <<SubSeq(f, 1, k), SubSeq(f, k + 1, Len(f))>>

\* C8: every PinSpec lands in exactly one resolved pin; two PinSpecs are in the
\* same resolved pin if and only if a chain of PinSpecs, consecutive members
\* sharing an alias, links them; the alias sets of the resolved pins are the
\* unions of the aliases along the chains, and they are the same for every
\* ordering of the PinSpecs and for every cut of them into the two layers
\* (every ordering with every cut is an input of its own).
C8_MergedIffChained ==
    resOut.err = "none" =>
        LET N == Len(AllEntries)
        IN /\ Len(resOut.pins) = Len(resOut.groups)
           /\ \A i \in 1..N : Cardinality(PlacesOf(resOut, i)) = 1
           /\ \A i, j \in 1..N :
                 (GroupsOf(resOut, i) = GroupsOf(resOut, j)) <=> (j \in ChainClosure({i}))
           /\ AliasSets(resOut) =
                 {UNION {EntryAliases(AllEntries[j]) : j \in ChainClosure({i})} :
                     i \in 1..N}
           /\ \A p \in Orderings(N) :
                 AliasSets(generate_pins(Rearranged(p, Len(resIn[1])))) = AliasSets(resOut)
           /\ \A k \in 0..N :
                 AliasSets(generate_pins(Rearranged([i \in 1..N |-> i], k))) = AliasSets(resOut)

\* A resolved pin merged from three PinSpecs of both layers, two of which
\* share no alias and are linked only through the third.
C8_Witness ==
    /\ resOut.err = "none"
    /\ resIn[1] # <<>>
    /\ resIn[2] # <<>>
    /\ \E g \in 1..Len(resOut.groups) :
          /\ Len(resOut.groups[g]) >= 3
          /\ \E x, y \in 1..Len(resOut.groups[g]) :
                ~Linked(resOut.groups[g][x].id, resOut.groups[g][y].id)

\* C9: when a PinSpec of the subclass assigns a type, a PinSpec of the base
\* class sharing an alias with it assigns another type, and every PinSpec of
\* the subclass chained to it that assigns a type assigns the same one, the
\* resolved pin has the subclass's type.
C9_SubclassTypeWins ==
    resOut.err = "none" =>
        \A s \in 1..Len(resIn[1]) :
            \A b \in (Len(resIn[1]) + 1)..Len(AllEntries) :
                (/\ EntryType(AllEntries[s]) # "unset"
                 /\ EntryType(AllEntries[b]) # "unset"
                 /\ EntryType(AllEntries[b]) # EntryType(AllEntries[s])
                 /\ Linked(s, b)
                 /\ \A t \in 1..Len(resIn[1]) :
                       (t \in ChainClosure({s}) /\ EntryType(AllEntries[t]) # "unset")
                           => EntryType(AllEntries[t]) = EntryType(AllEntries[s]))
                => \A g \in GroupsOf(resOut, s) :
                       resOut.pins[g].type = EntryType(AllEntries[s])

(***************************************************************************)
(* Properties of NetBundle.connect                                         *)
(***************************************************************************)
BundleCalls == {"bundle_connect", "bundle_shift"}

\* The Interface of the port differs from the Interface of the bundle.
Mismatch(b, port) ==
    World.bundles[b].interface.id # World.ports[port].interface.cls.id

\* The pin a port maps the signal name to.
PortPin(port, name) == ODGet(World.ports[port].pins, name)

\* The one-pin groups that connecting the listed ports adds to the Net of a signal.
SignalGroups(ports, name) == [j \in 1..Len(ports) |-> <<PortPin(ports[j], name)>>]

\* The names of the signals of a bundle, as its Interface declares them.
BundleSignals(b) ==
    {World.bundles[b].interface.SIGNALS[i].names[1] :
        i \in 1..Len(World.bundles[b].interface.SIGNALS)}

\* C6: a bundle connect reaching a Port of another Interface raises the
\* type-mismatch error there, and then the Port is not in the bundle's
\* connection list, has no bundle back-reference from this call, none of its
\* pins has had its net set, and the bundle's per-signal Nets hold no group
\* beyond the ones of the targets connected before it (none at all when the
\* Port is the call's first target: nothing has changed).
C6_MismatchTouchesNothing ==
    [][\A k \in 1..Len(lastOp'.others) :
          (/\ lastOp'.kind \in BundleCalls
           /\ \A j \in 1..k : lastOp'.others[j].kind = "port"
           /\ Mismatch(lastOp'.self, lastOp'.others[k].id)
           /\ \A j \in 1..(k - 1) : ~Mismatch(lastOp'.self, lastOp'.others[j].id)
           /\ lastOp'.at \notin 1..(k - 1))
          => LET b == lastOp'.self
                 port == lastOp'.others[k].id
                 earlier == PinsOf(SubSeq(lastOp'.others, 1, k - 1))
             IN /\ lastOp'.err = "TypeError"
                /\ lastOp'.at = k
                /\ portBundle'[port] = portBundle[port]
                /\ bundleConns'[b] = bundleConns[b] \o earlier
                /\ \A i \in 1..Len(World.ports[port].pins) :
                      pinNet'[World.ports[port].pins[i].val]
                          = pinNet[World.ports[port].pins[i].val]
                /\ \A name \in BundleSignals(b) :
                      LET n == ODGet(World.bundles[b].nets, name)
                      IN grouped_connections_in(nets', connLists', n)
                            = grouped_connections(n) \o SignalGroups(earlier, name)
                /\ k = 1 => /\ nets' = nets
                            /\ connLists' = connLists
                            /\ pinNet' = pinNet
                            /\ bundleConns' = bundleConns
                            /\ portBundle' = portBundle]_vars

\* C6 witness: bundle X (SPI) was given port A, which it connected, and then the
\* TW port, where it raised the type-mismatch error.
C6_Witness ==
    /\ lastOp.kind \in BundleCalls
    /\ lastOp.self = 1
    /\ lastOp.others = <<PortTarget(1), PortTarget(4)>>
    /\ lastOp.err = "TypeError"
    /\ lastOp.at = 2
    /\ bundleConns[1] = <<1>>
    /\ pinNet["s1"] = 0

\* C7: a bundle connect that returns has, for every signal of the Interface and
\* every Port given, set the net of the Port's pin for the signal to the bundle's
\* Net for the signal, and added to that Net one new group per Port holding that
\* pin alone, in the order of the Ports; every Port given is appended to the
\* bundle's connection list, is in it exactly once, and has this bundle as its
\* back-reference.
C7_OneGroupPerSignalAndPort ==
    [][(lastOp'.kind \in BundleCalls /\ lastOp'.err = "none") =>
          LET b == lastOp'.self
              ports == PinsOf(lastOp'.others)
          IN /\ \A name \in BundleSignals(b) :
                   LET n == ODGet(World.bundles[b].nets, name)
                   IN /\ grouped_connections_in(nets', connLists', n)
                            = grouped_connections(n) \o SignalGroups(ports, name)
                      /\ \A j \in 1..Len(ports) :
                            pinNet'[PortPin(ports[j], name)] = n
             /\ bundleConns'[b] = bundleConns[b] \o ports
             /\ \A j \in 1..Len(ports) :
                   /\ portBundle'[ports[j]] = b
                   /\ Cardinality({i \in 1..Len(bundleConns'[b]) :
                                      bundleConns'[b][i] = ports[j]}) = 1]_vars

\* C7 witness: bundle X connected ports A and B in one call, which left two
\* one-pin groups on each of its two Nets.
C7_Witness ==
    /\ lastOp.kind \in BundleCalls
    /\ lastOp.err = "none"
    /\ lastOp.self = 1
    /\ lastOp.others = <<PortTarget(1), PortTarget(2)>>
    /\ grouped_connections(ODGet(World.bundles[1].nets, MOSI)) = << <<"a1">>, <<"b1">> >>
    /\ grouped_connections(ODGet(World.bundles[1].nets, MISO)) = << <<"a2">>, <<"b2">> >>
    /\ bundleConns[1] = <<1, 2>>
    /\ portBundle[1] = 1 /\ portBundle[2] = 1

(***************************************************************************)
(* Properties of part construction                                         *)
(***************************************************************************)
\* C11: a part type that declares two pins and nothing else can be
\* instantiated, and once two instances r1 and r2 exist and Net("GND") has
\* been connected to pin 1 of r1 and then to pin 1 of r2, in two calls and
\* nothing else, the Net's connections are exactly those two pins and its name
\* is "GND".
C11_EndToEnd ==
    /\ (lastOp.kind = "Part" /\ lastOp.others[1].id = "R") => lastOp.err = "none"
    /\ \A r1, r2 \in 1..Len(parts) :
          (/\ r1 # r2
           /\ opCount = 2
           /\ lastOp.kind = "connect"
           /\ lastOp.err = "none"
           /\ lastOp.others = <<PinTarget(<<r2, 1>>)>>
           /\ pinNet[<<r1, 1>>] = 1
           /\ pinNet[<<r2, 1>>] = 1)
          => (/\ connections(1) = << <<r1, 1>>, <<r2, 1>> >>
              /\ Net_name(nets, 1) = GND)

\* C12: two parts constructed without a reference designator report different
\* designators (a designator is a function of the part alone, so every read of
\* it gives the same).
C12_FallbackRefdesDistinct ==
    \A a, b \in 1..Len(parts) :
        (a # b /\ parts[a].refdes.kind = "none" /\ parts[b].refdes.kind = "none")
            => Part_refdes(parts[a]) # Part_refdes(parts[b])

(***************************************************************************)
(* Properties of the plugin hook                                           *)
(***************************************************************************)
\* The calls made to factory f with the object instance.
Invocations(f, instance) ==
    {i \in 1..Len(plug.invoked) :
        plug.invoked[i].factory = f /\ plug.invoked[i].instance = instance}

\* Factory set fs was applied to the object: each factory called once with it,
\* and the object's plugins is the mapping keyed by those factories.
Initialised(fs, instance, attr) ==
    /\ \A f \in fs : Cardinality(Invocations(f, instance)) = 1
    /\ fs # {} => (attr.kind = "instances" /\ attr.keys = fs)

\* The factories registered for a class.
Registered(cls) ==
    IF class_plugins(plug, cls) = 0 THEN {} ELSE plug.sets[class_plugins(plug, cls)]

\* C13: constructing a Net, a part, its pins and its ports never fails because
\* of registered factories, and every factory registered for the object's type
\* has been called exactly once with it and is a key of the object's plugins
\* mapping.
C13_FactoriesInvokedOnce ==
    /\ lastOp.kind \in {"Net", "Part"} => lastOp.err = "none"
    /\ (lastOp.kind = "Net" /\ lastOp.err = "none") =>
          Initialised(Registered("Net"), <<"net", lastOp.ret>>, netPlugins[lastOp.ret])
    /\ (lastOp.kind = "Part" /\ lastOp.err = "none") =>
          LET k == lastOp.ret
          IN /\ Initialised(Registered("Part"), <<"part", k>>, parts[k].plugins)
             /\ \A i \in 1..Len(parts[k].pins) :
                   Initialised(Registered("PartInstancePin"), <<"pin", k, i>>,
                               parts[k].pins[i].plugins)
             /\ \A j \in 1..Len(parts[k].ports) :
                   Initialised(Registered("PartInstancePort"), <<"port", k, j>>,
                               plugins_attr(plug, "PartInstancePort", NoAttr))

(***************************************************************************)
(* Properties of matching pins by net name                                 *)
(***************************************************************************)
\* The pin of part 1 that carries the name.
PinNamed(name) ==
    <<1, CHOOSE i \in 1..Len(parts[1].pins) : InSeq(name, parts[1].pins[i].names)>>

\* C14: when the part has pin_names_match_nets and the prefix "SPI1", the first
\* shift of the Net named "SPI1_MOSI" ("SPI1_MISO", "SPI1_SCK", "SPI1_CS")
\* onto the bare part returns and connects the Net to the pin named MOSI (MISO,
\* SCK, CS).
C14_PrefixStripped ==
    \A sig \in SpiNames :
        (/\ lastOp.kind = "shift"
         /\ opCount = 1
         /\ parts[1].cls.pin_names_match_nets
         /\ parts[1].cls.pin_names_match_nets_prefix = SPI1
         /\ Net_name(nets, lastOp.self) = SPI1 \o <<"_">> \o sig)
        => (/\ lastOp.err = "none"
            /\ connections(lastOp.self) = <<PinNamed(sig)>>)

(***************************************************************************)
(* Properties of the wells                                                 *)
(***************************************************************************)
\* The names an element of PINS declares, as the pin carries them.
DeclaredNames(entry) ==
    IF entry.names.kind = "str"
    THEN {Upper(entry.names.v)}
    ELSE {Upper(entry.names.v[i]) : i \in 1..Len(entry.names.v)}

\* The type an element of PINS declares.
DeclaredType(entry) ==
    IF \E i \in 1..Len(entry.kwargs) : entry.kwargs[i].key = "type"
    THEN entry.kwargs[CHOOSE i \in 1..Len(entry.kwargs) : entry.kwargs[i].key = "type"].val
    ELSE "UNKNOWN"

\* The positions in PINS of the pins that name a well.
WithWell(PINS) ==
    {i \in 1..Len(PINS) : \E k \in 1..Len(PINS[i].kwargs) : PINS[i].kwargs[k].key = "well"}

\* The well name the i-th element of PINS gives.
DeclaredWell(PINS, i) ==
    Upper(PINS[i].kwargs[CHOOSE k \in 1..Len(PINS[i].kwargs) :
                            PINS[i].kwargs[k].key = "well"].val.v)

\* The positions of the power pins that carry the well name of the i-th pin.
PowerCarriers(PINS, i) ==
    {j \in 1..Len(PINS) : /\ DeclaredWell(PINS, i) \in DeclaredNames(PINS[j])
                          /\ DeclaredType(PINS[j]) \in PowerTypes}

\* C15: instantiating a part type whose pin names a well succeeds exactly when
\* a pin of the type carries that name and is a power input or output, whether
\* it is declared before or after the pin that names it, and then the pin's
\* well is that pin of the same instance.
C15_WellResolvedInAnyOrder ==
    (lastOp.kind = "Part" /\ lastOp.others[1].id = "W") =>
        LET PINS == lastOp.others[1].cls.PINS[1]
        IN \A i \in WithWell(PINS) :
              /\ lastOp.err = "none" <=> PowerCarriers(PINS, i) # {}
              /\ lastOp.err = "none" =>
                    parts[lastOp.ret].pins[i].well \in PowerCarriers(PINS, i)

(***************************************************************************)
(* Properties of chained shifts                                            *)
(***************************************************************************)
\* The entries a shift records for its targets: each pin with the direction
\* of the operator.
Recorded(others, dir) ==
    [i \in 1..Len(others) |-> [pin |-> others[i].id, dir |-> dir]]

\* C16: a shift that continues a chain (it is applied to the view an earlier
\* shift returned) opens no group: it appends its targets, in order and with
\* its own operator's direction, to the group the chain's first shift opened,
\* leaves every other group as it was and returns the same view, so that the
\* whole chain sits in one group; a shift applied to the base Net itself opens
\* a new group that holds its targets and returns a view of that group.
C16_ChainExtendsOneGroup ==
    [][(lastOp'.kind = "shift" /\ lastOp'.err = "none") =>
          LET n == lastOp'.self
              before == connLists[nets[n].conns]
              after == connLists'[nets[n].conns]
              g == nets[n].group
              added == Recorded(lastOp'.others, lastOp'.dir)
          IN IF g # 0
             THEN /\ Len(after) = Len(before)
                  /\ after[g] = before[g] \o added
                  /\ \A h \in 1..Len(before) : h # g => after[h] = before[h]
                  /\ lastOp'.ret = n
             ELSE /\ after = Append(before, added)
                  /\ nets'[lastOp'.ret].parent = n
                  /\ nets'[lastOp'.ret].group = Len(after)
                  /\ nets'[lastOp'.ret].conns = nets[n].conns]_vars

\* C16 witness: net << a >> b left the one group (a: IN, b: OUT) on the Net.
C16_Witness ==
    /\ lastOp.kind = "shift"
    /\ lastOp.err = "none"
    /\ lastOp.dir = "OUT"
    /\ lastOp.others = <<PinTarget("b")>>
    /\ nets[lastOp.self].parent = 1
    /\ connLists[nets[1].conns] =
          << <<[pin |-> "a", dir |-> "IN"], [pin |-> "b", dir |-> "OUT"]>> >>

(***************************************************************************)
(* Properties of the resolved type, well and numbers                       *)
(***************************************************************************)
\* The PinSpecs (positions in the MRO-ordered list) merged into resolved pin g.
Members(g) == {resOut.groups[g][k].id : k \in 1..Len(resOut.groups[g])}

\* The hierarchy layer of PinSpec i: 1 is the most derived class.
LayerOf(i) ==
    CHOOSE c \in 1..Len(resIn) :
        /\ i > Len(Flatten(SubSeq(resIn, 1, c - 1)))
        /\ i <= Len(Flatten(SubSeq(resIn, 1, c)))

Assigns(i, key) == ODHas(AllEntries[i].kwargs, key)

Assigned(i, key) == ODGet(AllEntries[i].kwargs, key)

\* Of the PinSpecs in S, those of the most derived layer that has any.
MostDerived(S) == {i \in S : \A j \in S : LayerOf(i) <= LayerOf(j)}

\* What a resolved pin reports for a keyword.
Resolved(g, key) == IF key = "type" THEN resOut.pins[g].type ELSE resOut.pins[g].well_name

\* C17: the resolved type and well of every resolved pin are those assigned by
\* a PinSpec of the most derived layer, among the PinSpecs merged into the pin,
\* that assigns one.
C17_NearestLayerWins ==
    resOut.err = "none" =>
        \A g \in 1..Len(resOut.pins), key \in {"type", "well"} :
            LET assigning == {i \in Members(g) : Assigns(i, key)}
            IN assigning # {} =>
                  Resolved(g, key) \in {Assigned(i, key) : i \in MostDerived(assigning)}

RECURSIVE InOrder(_)
\* The numbers of the PinSpecs in S, most derived layer first and in
\* declaration order within a layer.
InOrder(S) ==
    IF S = {}
    THEN <<>>
    ELSE LET i == CHOOSE k \in S : \A j \in S : k <= j
         IN PinFragment_init(AllEntries[i].names, AllEntries[i].number, <<>>, <<>>,
                             <<>>).numbers \o InOrder(S \ {i})

\* C18: the numbers of every resolved pin are the numbers of the PinSpecs merged
\* into it, most derived layer first and in declaration order within a layer.
C18_NumbersMostDerivedFirst ==
    resOut.err = "none" =>
        \A g \in 1..Len(resOut.pins) : resOut.pins[g].numbers = InOrder(Members(g))

\* The default value of a keyword.
Default(key) == IF key = "type" THEN "UNKNOWN" ELSE NoneArg

\* C19 as stated: the resolved type and well are the most derived value other
\* than the default: a default written out by a more derived PinSpec does not
\* override another value assigned by a less derived one.
C19_DefaultDoesNotOverride ==
    resOut.err = "none" =>
        \A g \in 1..Len(resOut.pins), key \in {"type", "well"} :
            LET assigning == {i \in Members(g) :
                                 Assigns(i, key) /\ Assigned(i, key) # Default(key)}
            IN assigning # {} =>
                  Resolved(g, key) \in {Assigned(i, key) : i \in MostDerived(assigning)}

\* The first of the PinSpecs merged into resolved pin g: most derived layer
\* first, declaration order within a layer.
First(g) == CHOOSE i \in Members(g) : \A j \in Members(g) : i <= j

\* C19 amended: a type or well that the first PinSpec of a pin assigns is the
\* resolved one also when it is the default written out (type unknown, no
\* well): it overrides any other value assigned by a later PinSpec.
C19_ExplicitDefaultOverrides ==
    resOut.err = "none" =>
        \A g \in 1..Len(resOut.pins), key \in {"type", "well"} :
            Assigns(First(g), key) => Resolved(g, key) = Assigned(First(g), key)

\* C19 witness: a pin whose first PinSpec writes out type=UNKNOWN, merged with
\* a PinSpec of a less derived layer that assigns PRIMARY, resolved to UNKNOWN.
C19_Witness ==
    /\ resOut.err = "none"
    /\ \E g \in 1..Len(resOut.pins) :
          /\ Assigns(First(g), "type")
          /\ Assigned(First(g), "type") = "UNKNOWN"
          /\ \E i \in Members(g) : /\ LayerOf(i) > LayerOf(First(g))
                                   /\ Assigns(i, "type")
                                   /\ Assigned(i, "type") = "PRIMARY"
          /\ resOut.pins[g].type = "UNKNOWN"

(***************************************************************************)
(* Properties of shifts applied to pins                                    *)
(***************************************************************************)
Opposite(dir) == IF dir = "IN" THEN "OUT" ELSE "IN"

\* C20: a returning p << targets (p >> targets) on a pin p without a Net makes
\* one anonymous Net with one fresh connection list of exactly one group: p
\* first with direction OUT (IN), then the targets in order with direction IN
\* (OUT); afterwards p and every target have a Net, and all of these report
\* the same name and the same connections, p followed by the targets.
C20_PinShiftSeedsOppositeDirection ==
    [][(/\ lastOp'.kind = "pinshift"
        /\ lastOp'.err = "none"
        /\ pinNet[lastOp'.others[1].id] = 0) =>
          LET p == lastOp'.others[1].id
              targets == Tail(lastOp'.others)
              base == Len(nets) + 1
          IN /\ Len(nets') = Len(nets) + 2
             /\ nets'[base].parent = 0
             /\ ~nets'[base].has_name
             /\ nets'[base].conns = Len(connLists) + 1
             /\ Len(connLists') = Len(connLists) + 1
             /\ connLists'[Len(connLists) + 1] =
                   << <<[pin |-> p, dir |-> Opposite(lastOp'.dir)]>>
                      \o Recorded(targets, lastOp'.dir) >>
             /\ \A q \in {p} \cup SeqToSet(PinsOf(targets)) :
                   /\ pinNet'[q] # 0
                   /\ Net_name(nets', pinNet'[q]) = Net_name(nets', base)
                   /\ Flatten(grouped_connections_in(nets', connLists', pinNet'[q]))
                         = <<p>> \o PinsOf(targets)]_vars

\* C20 witness: a << (b, c) as the first call left the one group
\* (a: OUT, b: IN, c: IN).
C20_Witness ==
    /\ lastOp.kind = "pinshift"
    /\ lastOp.err = "none"
    /\ opCount = 1
    /\ lastOp.dir = "IN"
    /\ lastOp.others = <<PinTarget("a"), PinTarget("b"), PinTarget("c")>>
    /\ connLists[Len(connLists)] =
          << <<[pin |-> "a", dir |-> "OUT"], [pin |-> "b", dir |-> "IN"],
               [pin |-> "c", dir |-> "IN"]>> >>
    /\ Net_name(nets, pinNet["a"]) = Net_name(nets, pinNet["c"])

(***************************************************************************)
(* Properties of a connect that raises part way                            *)
(***************************************************************************)
\* The index, in the connection list of Net self, of the group a call on self
\* recorded into: the group of a view, else the group the call appended.
GroupOfCall(self) ==
    IF nets[self].group # 0
    THEN nets[self].group
    ELSE Len(connLists'[nets[self].conns])

\* Pin q was in the group g of Net self before the call.
InGroupBefore(self, g, q) ==
    /\ g <= Len(connLists[nets[self].conns])
    /\ \E j \in 1..Len(connLists[nets[self].conns][g]) :
          connLists[nets[self].conns][g][j].pin = q

\* Pin q is in the group g of Net self after the call.
InGroupAfter(self, g, q) ==
    \E j \in 1..Len(connLists'[nets[self].conns][g]) :
        connLists'[nets[self].conns][g][j].pin = q

\* The targets before the one that raised were pins, their Net is the Net of the
\* call and they are in the call's group.
EarlierTargetsStay ==
    \A i \in 1..(lastOp'.at - 1) :
        /\ lastOp'.others[i].kind = "pin"
        /\ pinNet'[lastOp'.others[i].id] = lastOp'.self
        /\ InGroupAfter(lastOp'.self, GroupOfCall(lastOp'.self), lastOp'.others[i].id)

\* A pin given as the target that raised or as a later one, and not also as an
\* earlier one, was not added to the call's group and has the Net it had.
LaterTargetsUntouched ==
    \A i \in lastOp'.at..Len(lastOp'.others) :
        (/\ lastOp'.others[i].kind = "pin"
         /\ \A j \in 1..(lastOp'.at - 1) : lastOp'.others[j] # lastOp'.others[i])
        => /\ pinNet'[lastOp'.others[i].id] = pinNet[lastOp'.others[i].id]
           /\ InGroupAfter(lastOp'.self, GroupOfCall(lastOp'.self), lastOp'.others[i].id)
                 => InGroupBefore(lastOp'.self, GroupOfCall(lastOp'.self),
                                  lastOp'.others[i].id)

\* C21: when a connect (called directly or by a shift) with several targets
\* raises at its k-th target, the targets before the k-th are connected to this
\* Net and recorded in the call's group, and the k-th and later targets are
\* neither recorded in that group nor given a Net by the call.
C21_RaiseLeavesOnlyEarlierTargets ==
    [][(/\ lastOp'.kind \in {"connect", "shift"}
        /\ lastOp'.err # "none"
        /\ Len(lastOp'.others) > 1)
       => (EarlierTargetsStay /\ LaterTargetsUntouched)]_vars

(***************************************************************************)
(* Properties of a part type that only inherits                            *)
(***************************************************************************)
\* C22: the pins resolved for a part type that declares no pin list and only
\* inherits are the pins resolved for its parent: as many, in the same order,
\* each with the same names, numbers, type and well.
C22_InheritingTypeResolvesAsParent ==
    lastOp.kind = "inherit" =>
        /\ resOut.err = generate_pins(resIn).err
        /\ resOut.pins = generate_pins(resIn).pins

(***************************************************************************)
(* Properties of a part type without ports                                 *)
(***************************************************************************)
\* C23: constructing a part of a type that declares pins and no PORTS returns,
\* and the part made has an empty ports collection.
C23_PartWithoutPortsConstructs ==
    (/\ lastOp.kind = "Part"
     /\ ~lastOp.others[1].cls.has_PORTS
     /\ lastOp.others[1].cls.PINS # <<>>)
    => /\ lastOp.err = "none"
       /\ lastOp.ret = Len(parts)
       /\ parts[lastOp.ret].ports = <<>>

(***************************************************************************)
(* Properties of derived views                                             *)
(***************************************************************************)
\* C24: in every reachable state every derived view reports the name and the
\* grouped connections of the Net it was derived from, whatever was renamed
\* and whatever was connected through the view or the Net since.
C24_ViewReportsAsBase ==
    \A v \in 1..Len(nets) :
        nets[v].parent # 0 =>
            /\ Net_name(nets, v) = Net_name(nets, nets[v].parent)
            /\ grouped_connections(v) = grouped_connections(nets[v].parent)

\* C24 witness: a shift returned a view of the Net, the Net was renamed after
\* that, and a later connect on the Net opened a second group; the view reads
\* the new name and both groups.
C24_Witness ==
    /\ lastOp.kind = "connect"
    /\ lastOp.err = "none"
    /\ lastOp.self = 1
    /\ nets[1].name = <<"A", "G", "N", "D">>
    /\ \E v \in 1..Len(nets) :
          /\ nets[v].parent = 1
          /\ nets[v].name = <<"G", "N", "D">>
          /\ Net_name(nets, v) = <<"A", "G", "N", "D">>
          /\ Len(grouped_connections(v)) = 2

=============================================================================
